---- MODULE Spec2Model ----
(***************************************************************************)
(* go-txdb: a database/sql driver that runs every logical connection       *)
(* (keyed by the dsn given to sql.Open) inside one real transaction.       *)
(*                                                                         *)
(* The model follows src/db.go (txDriver.Open, conn.Close, conn.Begin,     *)
(* tx.Commit, tx.Rollback, conn.Exec, conn.Query), src/options.go (the     *)
(* savepoint strategy) and src/db_go18.go (conn.Ping).  The real backend   *)
(* (database/sql on top of MySQL/PostgreSQL) is modelled by the Tx*        *)
(* operators: a real transaction sees the seed rows plus its own inserts,  *)
(* keeps a stack of savepoints and is finished by Rollback.                *)
(***************************************************************************)
EXTENDS Integers, Sequences, FiniteSets, Bags, TLC

VARIABLES
    db,        \* txDriver.db: the real handle (Nil, or the id of a handle)
    realDBs,   \* ids of the real handles that sql.Open created and nobody closed
    conns,     \* txDriver.conns: dsn -> conn object (NoConn when absent)
    txs,       \* the real transactions begun so far, by id (backend state)
    refs,      \* dsn -> driver.Conn references database/sql holds (Open ok, not closed)
    txHandles, \* the *tx handles returned by conn.Begin and not yet resolved (a bag)
    options,   \* txDriver.options, fixed by Register
    drvOK,     \* whether sql.Open(d.drv, d.dsn) succeeds for the registered names
    crashed,   \* a nil *sql.Tx or *sql.DB was dereferenced: the process panicked
    nconn,     \* conn objects allocated so far (the next one gets cid nconn + 1)
    last,      \* what the last call did and returned
    mu,        \* conn.Mutex of the conn of each dsn: the caller holding it, or Nil
    dmu,       \* txDriver.Mutex: << >>, or <<op, dsn>> of the Open or Close holding it
    thr,       \* the calling goroutines: the call each one is in and where it stands
    watchers,  \* the goroutines beginTxOnce started and that have not returned
    stmts,     \* the statements PrepareContext returned, by id
    ns,        \* statements returned so far
    ncall      \* calls the goroutines have entered so far

\* The state of the goroutines (callers in flight, watchers, statements).
cvars == <<mu, thr, watchers, stmts, ns, ncall>>

vars == <<db, realDBs, conns, txs, refs, txHandles, options, drvOK, dmu, crashed,
          nconn, last, cvars>>

---------------------------------------------------------------------------
\* Bounds of the model.
MaxOpens == 3     \* driver.Conn references database/sql holds at once
MaxTxs == 2       \* real transactions begun in one run
MaxRows == 2      \* rows the live real transactions hold at once
MaxSaves == 2     \* savepoints numbered by the live conns together
MaxCallers == 2   \* goroutines calling into the driver at once
MaxWatchers == 2  \* watcher goroutines running at once
MaxStmts == 1     \* statements prepared in one run
MaxCalls == 3     \* calls the concurrent goroutines make in one run
MaxParCalls == 4  \* calls the goroutines of a test that queries and inserts make
MaxCtxCalls == 2  \* calls with a context the goroutines make in one run
MaxSets == 2      \* result sets one query returns
MaxBufRows == 2   \* rows one result set holds
MaxPast == 2      \* Next calls made on a result set after its last row
MaxArgs == 2      \* arguments one call passes

\* Rows the test database is seeded with (INSERTS of the Makefile).
SeedRows == 3

Dsns == {"one", "two"}
SaveDsns == {"one"}    \* the identifier used where one logical connection is enough
Nil == 0
NoConn == [cid |-> 0]

\* The statements the callers of the model send.
InsertSQL == "INSERT INTO users"
CountSQL == "SELECT COUNT(id) FROM users"
UsersSQL == "SELECT username FROM users"

---------------------------------------------------------------------------
\* src/options.go: the default savepoint strategy.

\* fmt.Sprintf("tx_%d", c.saves)
SavepointId(n) == "tx_" \o ToString(n)

\* defaultSavePoint.Create, .Release, .Rollback
SPCreate(id) == "SAVEPOINT " \o id
SPRelease(id) == "RELEASE SAVEPOINT " \o id
SPRollback(id) == "ROLLBACK TO SAVEPOINT " \o id

\* SavePointOption(savePoint): the option sets c.savePoint and returns nil.
SavePointOption(c, savePoint) == [c |-> [c EXCEPT !.savePoint = savePoint], err |-> "nil"]

\* An option is a func(*conn) error: the one SavePointOption builds, or one
\* that returns an error and leaves the conn alone.
FailingOption == "fail"

\* opt(c); applied counts the options called on the object.
Option(c, o) ==
    LET r == IF o = FailingOption THEN [c |-> c, err |-> "ErrOption"]
             ELSE SavePointOption(c, o)
    IN [r EXCEPT !.c.applied = @ + 1]

\* Mutant: the options are not applied.
ApplyOptionsNone(c, opts) == [c |-> c, err |-> "nil"]

\* for _, opt := range d.options { if e := opt(c); e != nil { return c, e } }
RECURSIVE ApplyOptions(_, _)
ApplyOptions(c, opts) ==
    IF opts = << >> THEN [c |-> c, err |-> "nil"]
    ELSE LET r == Option(c, Head(opts))
         IN IF r.err # "nil" THEN r ELSE ApplyOptions(r.c, Tail(opts))

---------------------------------------------------------------------------
\* The backend: one real transaction (*sql.Tx).

\* cur counts the result sets (*sql.Rows) open on the transaction; ctx is the
\* context the transaction was begun with: "none" for Begin(), which takes
\* no context.
NewTx == [done |-> FALSE, ins |-> 0, sp |-> << >>, cur |-> 0, ctx |-> "none"]

\* c.drv.db.BeginTx(rootCtx, &sql.TxOptions{}): a transaction begun with a
\* root context that can be cancelled.
NewTxWith(rootCtx) == [NewTx EXCEPT !.ctx = rootCtx]

\* Names a savepoint statement can carry.
SavepointNames == {SavepointId(n) : n \in 0..(MaxSaves + 1)} \cup {"_"}

\* Index of the newest savepoint called name, 0 when there is none.
SpIndex(sp, name) ==
    LET S == {i \in 1..Len(sp) : sp[i].name = name}
    IN IF S = {} THEN 0 ELSE CHOOSE i \in S : \A j \in S : j <= i

\* tx.Exec(query): the transaction after the statement, and the error.
TxExec(t, query, fail) ==
    IF t.done THEN [tx |-> t, err |-> "ErrTxDone"]
    ELSE IF fail THEN [tx |-> t, err |-> "ErrBackend"]
    ELSE IF t.cur > 0 THEN [tx |-> t, err |-> "ErrBusy"]
    ELSE IF query = InsertSQL THEN [tx |-> [t EXCEPT !.ins = @ + 1], err |-> "nil"]
    ELSE IF \E n \in SavepointNames : query = "SAVEPOINT " \o n THEN
        LET n == CHOOSE n \in SavepointNames : query = "SAVEPOINT " \o n
        IN [tx |-> [t EXCEPT !.sp = Append(@, [name |-> n, mark |-> t.ins])], err |-> "nil"]
    ELSE IF \E n \in SavepointNames : query = "RELEASE SAVEPOINT " \o n THEN
        LET n == CHOOSE n \in SavepointNames : query = "RELEASE SAVEPOINT " \o n
            i == SpIndex(t.sp, n)
        IN IF i = 0 THEN [tx |-> t, err |-> "ErrNoSavepoint"]
           ELSE [tx |-> [t EXCEPT !.sp = SubSeq(@, 1, i - 1)], err |-> "nil"]
    ELSE IF \E n \in SavepointNames : query = "ROLLBACK TO SAVEPOINT " \o n THEN
        LET n == CHOOSE n \in SavepointNames : query = "ROLLBACK TO SAVEPOINT " \o n
            i == SpIndex(t.sp, n)
        IN IF i = 0 THEN [tx |-> t, err |-> "ErrNoSavepoint"]
           ELSE [tx |-> [t EXCEPT !.sp = SubSeq(@, 1, i), !.ins = t.sp[i].mark],
                 err |-> "nil"]
    ELSE [tx |-> t, err |-> "ErrSyntax"]

\* tx.Query(CountSQL): the count the transaction sees, and the error.
TxQuery(t, fail) ==
    IF t.done THEN [res |-> -1, err |-> "ErrTxDone"]
    ELSE IF fail THEN [res |-> -1, err |-> "ErrBackend"]
    ELSE IF t.cur > 0 THEN [res |-> -1, err |-> "ErrBusy"]
    ELSE [res |-> SeedRows + t.ins, err |-> "nil"]

\* Mutant: the backend accepts every query at Prepare and validates it later.
TxPrepareDeferred(t, fail) == IF t.done THEN "ErrTxDone" ELSE "nil"

\* tx.Prepare(query): whether the transaction can prepare a statement.
TxPrepare(t, fail) ==
    IF t.done THEN "ErrTxDone"
    ELSE IF fail THEN "ErrBackend"
    ELSE IF t.cur > 0 THEN "ErrBusy"
    ELSE "nil"

\* A result set of the transaction is opened (tx.Query returned rs).
SqlRowsOpen(t) == [t EXCEPT !.cur = @ + 1]

\* Mutant: a result set stays open until it is closed by its user.
SqlRowsStay(t) == t

\* database/sql closes a result set by itself when rs.Next() returns false
\* for an error, or at the end of its last result set.
SqlRowsExhaust(t) == [t EXCEPT !.cur = @ - 1]

\* rs.Close()
SqlRowsClose(t) == [t EXCEPT !.cur = @ - 1]

\* tx.Rollback(): database/sql marks the transaction done before it asks the
\* driver to roll back, so the transaction is finished whatever the outcome.
TxRollback(t, fail) ==
    IF t.done THEN [tx |-> t, err |-> "ErrTxDone"]
    ELSE [tx |-> [t EXCEPT !.done = TRUE, !.ins = 0, !.sp = << >>, !.cur = 0],
          err |-> IF fail THEN "ErrBackend" ELSE "nil"]

---------------------------------------------------------------------------
\* Helpers over the state.

\* Whether the backend fails the call it is asked to make.
FaultChoices == BOOLEAN

RECURSIVE Sum(_, _)
Sum(f, S) == IF S = {} THEN 0 ELSE LET x == CHOOSE x \in S : TRUE IN f[x] + Sum(f, S \ {x})

HandlesOn(dsn) ==
    LET H == {h \in BagToSet(txHandles) : h.dsn = dsn}
    IN Sum([h \in H |-> CopiesIn(h, txHandles)], H)

TotalRefs == Sum(refs, Dsns)
TotalRows == Sum([i \in 1..Len(txs) |-> txs[i].ins], 1..Len(txs))
TotalSaves == Sum([d \in Dsns |-> IF conns[d] = NoConn THEN 0 ELSE conns[d].saves], Dsns)

InMap(dsn) == conns[dsn] # NoConn

\* c.ctx, set together with c.tx by beginTxOnce (src/db_go18.go:52) and by
\* nothing else: nil ("none") on a conn whose transaction Open began.
Ctx(c) == IF c.tx = Nil THEN "none" ELSE txs[c.tx].ctx

\* database/sql: a rollback of the real transaction closes the statements
\* that were prepared on it.
ClosePrepared(tx) ==
    [i \in DOMAIN stmts |-> IF stmts[i].tx = tx THEN [stmts[i] EXCEPT !.closed = TRUE]
                            ELSE stmts[i]]

Ret(op, dsn, err, lock, sql, res, id) ==
    [op |-> op, dsn |-> dsn, err |-> err, lock |-> lock, sql |-> sql, res |-> res,
     id |-> id]

\* What a COUNT query on the logical connection of dsn returns (-1: no answer).
Visible(dsn) ==
    IF InMap(dsn) /\ conns[dsn].tx # Nil THEN TxQuery(txs[conns[dsn].tx], FALSE).res
    ELSE -1

\* The goroutines that call into the driver, and a goroutine between calls.
Callers == 1..MaxCallers
NoRows == [sets |-> << >>, pos |-> 0]
Idle == [pc |-> "idle", op |-> "", dsn |-> "", cx |-> "bg", w |-> Nil, h |-> Nil,
         rows |-> NoRows, args |-> << >>]

\* No watcher goroutine: the state of a slot before one is started and after
\* it has returned.
NoWatcher == [pc |-> "none", dsn |-> "", cid |-> 0, tx |-> Nil, cx |-> FALSE,
              done |-> FALSE]
Exited == NoWatcher

\* Watcher goroutines running, and the slot the next one takes.
Watching == {i \in 1..MaxWatchers : watchers[i].pc # "none"}
FreeSlot == CHOOSE i \in 1..MaxWatchers \ Watching :
                \A j \in 1..MaxWatchers \ Watching : i <= j

\* No statement.  rd names the method of the statement that has its result
\* set open and is reading it in buildRows ("" when none is).
NoStmt == [dsn |-> "", cid |-> 0, tx |-> Nil, closed |-> FALSE, sig |-> "none",
           wpc |-> "none", rel |-> FALSE, werr |-> "nil", rd |-> ""]

\* The statements of the real transaction k whose Query or QueryContext is
\* between s.st.Query and the end of buildRows.
ReadingTx(k) == {i \in 1..MaxStmts : stmts[i].rd # "" /\ stmts[i].tx = k}

\* Calls in flight on the conn of dsn, those of its statements and a Close
\* that has taken the registry lock included; database/sql gives each a
\* driver.Conn.
InFlightOn(dsn) ==
    Cardinality({t \in Callers : thr[t].pc # "idle" /\ thr[t].dsn = dsn})
        + Cardinality({i \in 1..MaxStmts : stmts[i].rd # "" /\ stmts[i].dsn = dsn})
        + (IF dmu = <<"Close", dsn>> THEN 1 ELSE 0)

---------------------------------------------------------------------------
\* Register(name, drv, dsn, options...): the driver before its first Open.
InitWith(optionLists) ==
    /\ db = Nil
    /\ realDBs = {}
    /\ conns = [d \in Dsns |-> NoConn]
    /\ txs = << >>
    /\ refs = [d \in Dsns |-> 0]
    /\ txHandles = EmptyBag
    /\ options \in optionLists
    /\ drvOK \in BOOLEAN
    /\ crashed = FALSE
    /\ nconn = 0
    /\ last = Ret("none", "", "nil", "none", << >>, -1, "")
    /\ mu = [d \in Dsns |-> Nil]
    /\ dmu = << >>
    /\ thr = [t \in Callers |-> Idle]
    /\ watchers = [i \in 1..MaxWatchers |-> NoWatcher]
    /\ stmts = [i \in 1..MaxStmts |-> NoStmt]
    /\ ns = 0
    /\ ncall = 0

\* Registered with no option or with SavePointOption(nil).
Init == InitWith({<< >>, <<"nil">>})

\* Registered with options of which one may return an error.
OptionLists ==
    {<< >>, <<"nil">>, <<FailingOption>>, <<"nil", FailingOption>>,
     <<FailingOption, "nil">>}

OptInit == InitWith(OptionLists)

---------------------------------------------------------------------------
\* src/db.go:117 txDriver.Open, under d.Lock().

\* Nobody holds the registry lock (txDriver.Mutex).
DrvLockFree == dmu = << >>

\* d.Lock() in Open and c.drv.Lock() in Close (op), their first statement:
\* the goroutine gets the registry lock and runs the rest of the method in a
\* later step.  database/sql opens MaxOpens driver.Conns at most and closes
\* a driver.Conn that nothing is using.
DrvLock(op, dsn) ==
    /\ ~crashed
    /\ DrvLockFree
    /\ op \in {"Open", "Close"}
    /\ op = "Open" => TotalRefs < MaxOpens
    /\ op = "Close" => (InMap(dsn) /\ refs[dsn] > HandlesOn(dsn) + InFlightOn(dsn))
    /\ dmu' = <<op, dsn>>
    /\ UNCHANGED <<db, realDBs, conns, txs, refs, txHandles, options, drvOK, crashed,
                   nconn, last, cvars>>

\* Mutant: the lookup never finds the identifier.
LookupMiss(m, dsn) == NoConn

\* c, ok := d.conns[dsn]
Lookup(m, dsn) == m[dsn]

\* c = &conn{dsn: dsn, drv: d, savePoint: &defaultSavePoint{}}
\* cid is the identity of the object; h0 is no field of conn: it remembers
\* how many real handles were open before the Open that created the object.
NewConn(dsn, cid) ==
    [cid |-> cid, dsn |-> dsn, tx |-> Nil, opened |-> 0, saves |-> 0,
     savePoint |-> "default", h0 |-> Cardinality(realDBs), applied |-> 0]

\* Mutant: one real transaction for every logical connection (if d.tx == nil).
DBBeginShared(fail) ==
    IF fail THEN [txs |-> txs, tx |-> Nil, err |-> "ErrBegin"]
    ELSE IF txs # << >> THEN [txs |-> txs, tx |-> Len(txs), err |-> "nil"]
    ELSE [txs |-> Append(txs, NewTx), tx |-> Len(txs) + 1, err |-> "nil"]

\* d.db.Begin(): a new real transaction, or no transaction and an error.
DBBegin(fail) ==
    IF fail THEN [txs |-> txs, tx |-> Nil, err |-> "ErrBegin"]
    ELSE [txs |-> Append(txs, NewTx), tx |-> Len(txs) + 1, err |-> "nil"]

\* The method from d.Lock() (taken in this step, or in an earlier one by
\* DrvLock) to its return, where the deferred d.Unlock() runs.
Open(dsn, fail) ==
    /\ ~crashed
    /\ dmu \in {<< >>, <<"Open", dsn>>}
    /\ dmu' = << >>
    /\ TotalRefs < MaxOpens
    /\ IF db = Nil /\ ~drvOK
       THEN \* sql.Open failed: return nil, err
            /\ ~fail
            /\ last' = Ret("Open", dsn, "ErrOpen", "drv", << >>, -1, "")
            /\ UNCHANGED <<db, realDBs, conns, txs, refs, nconn>>
       ELSE LET newdb == Cardinality(realDBs) + 1
                c == Lookup(conns, dsn)
            IN /\ db' = IF db = Nil THEN newdb ELSE db
               /\ realDBs' = IF db = Nil THEN realDBs \cup {newdb} ELSE realDBs
               /\ IF c = NoConn
                  THEN LET o == ApplyOptions(NewConn(dsn, nconn + 1), options)
                           b == DBBegin(fail)
                       IN /\ Len(txs) < MaxTxs
                          /\ nconn' = nconn + 1
                          /\ IF o.err # "nil"
                             THEN \* return c, e (res: c.opened of the object returned)
                                  /\ ~fail
                                  /\ last' = Ret("Open", dsn, o.err, "drv", << >>,
                                                 o.c.opened, "")
                                  /\ UNCHANGED <<conns, txs, refs>>
                             ELSE \* c.tx, err = d.db.Begin(); d.conns[dsn] = c; c.opened++
                                  /\ txs' = b.txs
                                  /\ conns' = [conns EXCEPT ![dsn] =
                                        [o.c EXCEPT !.tx = b.tx, !.opened = @ + 1]]
                                  /\ refs' = [refs EXCEPT ![dsn] =
                                        IF b.err = "nil" THEN @ + 1 ELSE @]
                                  /\ last' = Ret("Open", dsn, b.err, "drv", << >>, -1, "")
                  ELSE \* c.opened++; return c, nil
                       /\ ~fail
                       /\ conns' = [conns EXCEPT ![dsn].opened = @ + 1]
                       /\ refs' = [refs EXCEPT ![dsn] = @ + 1]
                       /\ last' = Ret("Open", dsn, "nil", "drv", << >>, -1, "")
                       /\ UNCHANGED <<txs, nconn>>
    /\ UNCHANGED <<txHandles, options, drvOK, crashed, cvars>>

---------------------------------------------------------------------------
\* src/db.go:145 conn.Close, under c.drv.Lock().  database/sql closes a
\* driver.Conn once, and not while a transaction handle is using it.

\* Mutant: every Close rolls back, whatever the count.
LastCloseAlways(c) == TRUE

\* if c.opened == 0
LastClose(c) == c.opened = 0

\* The method from c.drv.Lock() (taken in this step, or in an earlier one by
\* DrvLock) to its return, where the deferred c.drv.Unlock() runs.
Close(dsn, fail) ==
    /\ ~crashed
    /\ dmu \in {<< >>, <<"Close", dsn>>}
    /\ dmu' = << >>
    /\ InMap(dsn)
    /\ DrvLockFree => refs[dsn] > HandlesOn(dsn) + InFlightOn(dsn)
    /\ refs' = [refs EXCEPT ![dsn] = @ - 1]
    /\ LET c == [conns[dsn] EXCEPT !.opened = @ - 1]
       IN IF LastClose(c)
          THEN IF c.tx = Nil
               THEN \* c.tx.Rollback() on a nil *sql.Tx
                    /\ ~fail
                    /\ crashed' = TRUE
                    /\ conns' = [conns EXCEPT ![dsn] = c]
                    /\ last' = Ret("Close", dsn, "panic", "drv", << >>, -1, "")
                    /\ UNCHANGED <<txs, stmts>>
               ELSE LET r == TxRollback(txs[c.tx], fail)
                    IN /\ txs' = [txs EXCEPT ![c.tx] = r.tx]
                       /\ txs[c.tx].done => ~fail
                       /\ stmts' = IF txs[c.tx].done THEN stmts
                                   ELSE ClosePrepared(c.tx)
                       /\ conns' = [conns EXCEPT ![dsn] =
                             IF r.err # "nil" THEN c ELSE NoConn]
                       /\ last' = Ret("Close", dsn, r.err, "drv", << >>, -1, "")
                       /\ UNCHANGED crashed
          ELSE /\ ~fail
               /\ conns' = [conns EXCEPT ![dsn] = c]
               /\ last' = Ret("Close", dsn, "nil", "drv", << >>, -1, "")
               /\ UNCHANGED <<txs, crashed, stmts>>
    /\ UNCHANGED <<db, realDBs, txHandles, options, drvOK, nconn, mu, thr, watchers,
                   ns, ncall>>

---------------------------------------------------------------------------
\* src/db.go:218 conn.Exec and src/db.go:233 conn.Query, under c.Lock().

Exec(dsn, fail) ==
    /\ ~crashed
    /\ refs[dsn] > 0
    /\ LET c == conns[dsn]
       IN IF c.tx = Nil
          THEN /\ ~fail
               /\ crashed' = TRUE
               /\ last' = Ret("Exec", dsn, "panic", "conn", <<InsertSQL>>, -1, "")
               /\ UNCHANGED <<txs>>
          ELSE LET r == TxExec(txs[c.tx], InsertSQL, fail)
               IN /\ TotalRows < MaxRows
                  /\ txs[c.tx].done => ~fail
                  /\ txs' = [txs EXCEPT ![c.tx] = r.tx]
                  /\ last' = Ret("Exec", dsn, r.err, "conn", <<InsertSQL>>, -1, "")
                  /\ UNCHANGED crashed
    /\ UNCHANGED <<db, realDBs, conns, refs, txHandles, options, drvOK, dmu, nconn, cvars>>

Query(dsn, fail) ==
    /\ ~crashed
    /\ refs[dsn] > 0
    /\ LET c == conns[dsn]
       IN IF c.tx = Nil
          THEN /\ ~fail
               /\ crashed' = TRUE
               /\ last' = Ret("Query", dsn, "panic", "conn", <<CountSQL>>, -1, "")
               /\ TRUE
          ELSE LET r == TxQuery(txs[c.tx], fail)
               IN /\ txs[c.tx].done => ~fail
                  /\ last' = Ret("Query", dsn, r.err, "conn", <<CountSQL>>, r.res, "")
                  /\ UNCHANGED crashed
    /\ UNCHANGED <<db, realDBs, conns, txs, refs, txHandles, options, drvOK, dmu, nconn, cvars>>

---------------------------------------------------------------------------
\* src/db.go:166 conn.Begin, src/db.go:183 tx.Commit, src/db.go:195 tx.Rollback.
\* database/sql gives every sql.Tx a driver.Conn of its own until the Tx is
\* resolved, and resolves a Tx once.

\* c.saves++
\* Mutant: Begin names its savepoint by the counter as it stands.
NextSaveSame(c) == c.saves

NextSave(c) == c.saves + 1

\* &tx{id, c}; n0 records the count visible when Begin was called.
Handle(id, c) == [id |-> id, dsn |-> c.dsn, n0 |-> Visible(c.dsn)]

\* Mutant: Commit names the savepoint the counter of the conn stands at.
CommitSQLLatest(h) == SPRelease(SavepointId(conns[h.dsn].saves))

\* tx.conn.savePoint.Release(tx.id)
CommitSQL(h) == SPRelease(h.id)

\* Mutant: Rollback releases the savepoint instead of rolling back to it.
RollbackSQLRelease(h) == SPRelease(h.id)

\* tx.conn.savePoint.Rollback(tx.id)
RollbackSQL(h) == SPRollback(h.id)

\* Mutant: the nil strategy is not recognised.
UnsupportedNever(c) == FALSE

\* if c.savePoint == nil
Unsupported(c) == c.savePoint = "nil"

Begin(dsn, fail) ==
    /\ ~crashed
    /\ refs[dsn] > HandlesOn(dsn)
    /\ LET c == conns[dsn]
       IN IF Unsupported(c)
          THEN \* return &tx{"_", c}, nil
               /\ ~fail
               /\ txHandles' = txHandles (+) SetToBag({Handle("_", c)})
               /\ last' = Ret("Begin", dsn, "nil", "none", << >>, -1, "_")
               /\ UNCHANGED <<conns, txs, crashed>>
          ELSE LET n == NextSave(c)
                   id == SavepointId(n)
               IN /\ TotalSaves < MaxSaves
                  /\ conns' = [conns EXCEPT ![dsn].saves = n]
                  /\ IF c.tx = Nil
                     THEN /\ ~fail
                          /\ crashed' = TRUE
                          /\ last' = Ret("Begin", dsn, "panic", "conn", <<SPCreate(id)>>,
                                         -1, id)
                          /\ UNCHANGED <<txs, txHandles>>
                     ELSE LET r == TxExec(txs[c.tx], SPCreate(id), fail)
                          IN /\ txs[c.tx].done => ~fail
                             /\ txs' = [txs EXCEPT ![c.tx] = r.tx]
                             /\ txHandles' = IF r.err = "nil"
                                             THEN txHandles (+) SetToBag({Handle(id, c)})
                                             ELSE txHandles
                             /\ last' = Ret("Begin", dsn, r.err, "conn", <<SPCreate(id)>>,
                                            -1, id)
                             /\ UNCHANGED crashed
    /\ UNCHANGED <<db, realDBs, refs, options, drvOK, dmu, nconn, cvars>>

\* The body shared by tx.Commit and tx.Rollback: op names the call, query
\* the statement it sends.
Resolve(op, h, query, fail) ==
    /\ ~crashed
    /\ BagIn(h, txHandles)
    /\ txHandles' = txHandles (-) SetToBag({h})
    /\ LET c == conns[h.dsn]
       IN IF Unsupported(c)
          THEN \* return nil
               /\ ~fail
               /\ last' = Ret(op, h.dsn, "nil", "none", << >>, -1, h.id)
               /\ UNCHANGED <<txs, crashed>>
          ELSE IF c.tx = Nil
          THEN /\ ~fail
               /\ crashed' = TRUE
               /\ last' = Ret(op, h.dsn, "panic", "conn", <<query>>, -1, h.id)
               /\ UNCHANGED <<txs>>
          ELSE LET r == TxExec(txs[c.tx], query, fail)
               IN /\ txs[c.tx].done => ~fail
                  /\ txs' = [txs EXCEPT ![c.tx] = r.tx]
                  /\ last' = Ret(op, h.dsn, r.err, "conn", <<query>>, -1, h.id)
                  /\ UNCHANGED crashed
    /\ UNCHANGED <<db, realDBs, conns, refs, options, drvOK, dmu, nconn, cvars>>

Commit(h, fail) == Resolve("Commit", h, CommitSQL(h), fail)

Rollback(h, fail) == Resolve("Rollback", h, RollbackSQL(h), fail)

---------------------------------------------------------------------------
\* src/db_go18.go:146 conn.Ping: c.drv.db.PingContext(ctx).

Ping(dsn, fail) ==
    /\ ~crashed
    /\ refs[dsn] > 0
    /\ IF db = Nil
       THEN /\ ~fail
            /\ crashed' = TRUE
            /\ last' = Ret("Ping", dsn, "panic", "none", << >>, -1, "")
            /\ TRUE
       ELSE /\ last' = Ret("Ping", dsn,
                           IF db \notin realDBs THEN "ErrDBClosed"
                           ELSE IF fail THEN "ErrBackend" ELSE "nil",
                           "none", << >>, -1, "")
            /\ UNCHANGED crashed
    /\ UNCHANGED <<db, realDBs, conns, txs, refs, txHandles, options, drvOK, dmu, nconn, cvars>>

---------------------------------------------------------------------------
\* Concurrent callers.  A call on a conn is made in steps: the goroutine
\* enters the method (Call, TxCall), takes c.Lock() (LockConn; the
\* context-aware methods then run beginTxOnce, which starts the watcher),
\* and returns (Return: the call on the real transaction, close(done),
\* c.Unlock()).

\* The methods of conn that take c.Lock(), and those that take a context.
LockedOps == {"Prepare", "Exec", "Query", "PrepareContext", "ExecContext",
              "QueryContext", "Begin", "Commit", "Rollback"}
CtxOps == {"PrepareContext", "ExecContext", "QueryContext"}
ExecOps == {"Exec", "ExecContext"}
QueryOps == {"Query", "QueryContext"}
PrepareOps == {"Prepare", "PrepareContext"}

\* Calls entered and not yet returned, by kind.
Pending(ops) == Cardinality({t \in Callers : thr[t].pc # "idle" /\ thr[t].op \in ops})
Unspawned == Cardinality({t \in Callers : thr[t].pc = "lock" /\ thr[t].op \in CtxOps})

\* Mutant: a method of the conn takes the registry lock before its own.
LockFreeWithDrv(d) == mu[d] = Nil /\ dmu = << >>

\* Mutant: the mutex never makes a caller wait.
LockFreeAlways(d) == TRUE

\* c.Lock() can be taken.
LockFree(d) == mu[d] = Nil

\* A goroutine enters a method of the conn of dsn; cx is the state of the
\* context it passes ("bg": none, or one that is never cancelled).
Call(t, op, dsn, cx) ==
    /\ ~crashed
    /\ thr[t].pc = "idle"
    /\ op \in LockedOps \ {"Commit", "Rollback"}
    /\ ncall' = ncall + 1
    /\ cx \in (IF op \in CtxOps THEN {"bg", "live", "cancelled"} ELSE {"bg"})
    /\ InMap(dsn)
    /\ refs[dsn] > InFlightOn(dsn) + (IF op = "Begin" THEN HandlesOn(dsn) ELSE 0)
    /\ op \in ExecOps => TotalRows + Pending(ExecOps) < MaxRows
    /\ op \in CtxOps => Cardinality(Watching) + Unspawned < MaxWatchers
    /\ op \in PrepareOps => ns + Pending(PrepareOps) < MaxStmts
    /\ op = "Begin" => TotalSaves + Pending({"Begin"}) < MaxSaves
    /\ IF op = "Begin" /\ Unsupported(conns[dsn])
       THEN \* return &tx{"_", c}, nil
            /\ txHandles' = txHandles (+) SetToBag({Handle("_", conns[dsn])})
            /\ last' = Ret("Begin", dsn, "nil", "none", << >>, -1, "_")
            /\ UNCHANGED thr
       ELSE /\ thr' = [thr EXCEPT ![t] = [pc |-> "lock", op |-> op, dsn |-> dsn,
                                         cx |-> cx, w |-> Nil, h |-> Nil,
                                         rows |-> thr[t].rows, args |-> << >>]]
            /\ UNCHANGED <<txHandles, last>>
    /\ UNCHANGED <<db, realDBs, conns, txs, refs, options, drvOK, dmu, crashed, nconn,
                   mu, watchers, stmts, ns>>

\* A goroutine enters tx.Commit or tx.Rollback of the handle h.
TxCall(t, op, h) ==
    /\ ~crashed
    /\ thr[t].pc = "idle"
    /\ op \in {"Commit", "Rollback"}
    /\ BagIn(h, txHandles)
    /\ InMap(h.dsn)
    /\ ncall' = ncall + 1
    /\ txHandles' = txHandles (-) SetToBag({h})
    /\ IF Unsupported(conns[h.dsn])
       THEN \* return nil
            /\ last' = Ret(op, h.dsn, "nil", "none", << >>, -1, h.id)
            /\ UNCHANGED thr
       ELSE /\ thr' = [thr EXCEPT ![t] = [pc |-> "lock", op |-> op, dsn |-> h.dsn,
                                         cx |-> "bg", w |-> Nil, h |-> h,
                                         rows |-> thr[t].rows, args |-> << >>]]
            /\ UNCHANGED last
    /\ UNCHANGED <<db, realDBs, conns, txs, refs, options, drvOK, dmu, crashed, nconn,
                   mu, watchers, stmts, ns>>

\* go func() { select { ... } }(): the watcher of the call of t on c.
NewWatcher(t, c) ==
    [pc |-> "outer", dsn |-> c.dsn, cid |-> c.cid, tx |-> c.tx,
     cx |-> thr[t].cx = "cancelled", done |-> FALSE]

\* Mutant: a transaction whose root context was cancelled is replaced.
NeedsTxOrCancelled(c) == c.tx = Nil \/ Ctx(c) = "cancelled"

\* if c.tx == nil, in beginTxOnce
NeedsTx(c) == c.tx = Nil

\* c.Lock(), and for the context-aware methods done := make(chan struct{})
\* and beginTxOnce(ctx, done).
LockConn(t, fail) ==
    /\ ~crashed
    /\ thr[t].pc = "lock"
    /\ LET d == thr[t].dsn
           c == conns[d]
       IN /\ LockFree(d)
          /\ IF thr[t].op \notin CtxOps
             THEN /\ ~fail
                  /\ mu' = [mu EXCEPT ![d] = t]
                  /\ thr' = [thr EXCEPT ![t].pc = "run"]
                  /\ UNCHANGED <<conns, txs, watchers, last>>
             ELSE IF NeedsTx(c) /\ fail
             THEN \* c.drv.db.BeginTx failed: cancel(); return nil, err
                  /\ thr' = [thr EXCEPT ![t] = [Idle EXCEPT !.rows = thr[t].rows]]
                  /\ last' = Ret(thr[t].op, d, "ErrBegin", "conn", << >>, -1, "")
                  /\ UNCHANGED <<mu, conns, txs, watchers>>
             ELSE /\ NeedsTx(c) => Len(txs) < MaxTxs
                  /\ ~NeedsTx(c) => ~fail
                  /\ mu' = [mu EXCEPT ![d] = t]
                  /\ txs' = IF NeedsTx(c) THEN Append(txs, NewTxWith("live")) ELSE txs
                  /\ conns' = IF NeedsTx(c)
                              THEN [conns EXCEPT ![d].tx = Len(txs) + 1]
                              ELSE conns
                  /\ watchers' = [watchers EXCEPT ![FreeSlot] = NewWatcher(t, conns'[d])]
                  /\ thr' = [thr EXCEPT ![t].pc = "run", ![t].w = FreeSlot]
                  /\ UNCHANGED last
    /\ UNCHANGED <<db, realDBs, refs, txHandles, options, drvOK, dmu, crashed, nconn,
                   stmts, ns, ncall>>

\* The real transaction as the call of t finds it: result sets that other
\* calls in flight have open on it are open for t as well (those of the
\* statements being read are counted in the transaction itself).
Backend(t, d) ==
    LET others == {u \in Callers \ {t} : /\ thr[u].pc = "run"
                                         /\ thr[u].dsn = d
                                         /\ thr[u].op \in QueryOps}
    IN [txs[conns[d].tx] EXCEPT !.cur = @ + Cardinality(others)]

\* What the backend answers to "SELECT username FROM users" on a table of n
\* users: one result set of one column, the users in the backend's order.
UsersCursor(n) == <<[rows |-> [k \in 1..n |-> k], cols |-> <<"username">>]>>

\* rows.read(rs): the columns, then every row of the result set in order,
\* read from the start.
Read(rs) == [rows |-> [k \in 1..Len(rs.rows) |-> rs.rows[k]], pos |-> 0, cols |-> rs.cols]

\* buildRows(r): the first result set of the cursor, then one more for every
\* r.NextResultSet().
BuildRows(cur) ==
    [sets |-> <<Read(cur[1])>> \o [i \in 1..(Len(cur) - 1) |-> Read(cur[i + 1])],
     pos |-> 0]

\* What the call of t on the real transaction does and returns.  A call whose
\* context was cancelled before it started fails; one whose context is
\* cancelled while it runs fails or completes.
Result(t, fail) ==
    LET d == thr[t].dsn
        c == conns[d]
        op == thr[t].op
        x == Backend(t, d)
        canc == thr[t].cx = "cancelled" \/ (thr[t].cx = "late" /\ fail)
        f == fail /\ thr[t].cx # "late"
        none == [tx |-> x, err |-> "ErrCanceled", res |-> -1, sql |-> << >>, id |-> "",
                 rows |-> thr[t].rows, saves |-> c.saves]
    IN IF canc THEN none
       ELSE IF op \in ExecOps THEN
            LET r == TxExec(x, InsertSQL, f)
            IN [none EXCEPT !.tx = r.tx, !.err = r.err, !.sql = <<InsertSQL>>]
       ELSE IF op \in QueryOps THEN
            LET q == TxQuery(x, f)
            IN IF q.err # "nil"
               THEN [none EXCEPT !.err = q.err, !.sql = <<UsersSQL>>]
               ELSE [none EXCEPT !.tx = SqlRowsClose(SqlRowsOpen(x)), !.err = "nil",
                                 !.res = q.res, !.sql = <<UsersSQL>>,
                                 !.rows = BuildRows(UsersCursor(q.res))]
       ELSE IF op \in PrepareOps THEN
            [none EXCEPT !.err = TxPrepare(x, f), !.sql = <<UsersSQL>>]
       ELSE IF op = "Begin" THEN
            LET n == NextSave(c)
                r == TxExec(x, SPCreate(SavepointId(n)), f)
            IN [none EXCEPT !.tx = r.tx, !.err = r.err, !.saves = n,
                            !.sql = <<SPCreate(SavepointId(n))>>, !.id = SavepointId(n)]
       ELSE LET q == IF op = "Commit" THEN CommitSQL(thr[t].h) ELSE RollbackSQL(thr[t].h)
                r == TxExec(x, q, f)
            IN [none EXCEPT !.tx = r.tx, !.err = r.err, !.sql = <<q>>, !.id = thr[t].h.id]

\* &stmt{st: st, done: stmtFailedStr} with its watcher (PrepareContext), or
\* &stmt{st: st} (Prepare).
NewStmt(c, op) ==
    [dsn |-> c.dsn, cid |-> c.cid, tx |-> c.tx, closed |-> FALSE, sig |-> "none",
     wpc |-> IF op = "PrepareContext" THEN "wait" ELSE "none", rel |-> FALSE,
     werr |-> "nil", rd |-> ""]

\* close(done): the watcher of the call, when it is still there, sees it.
CloseDone(w) ==
    IF w # Nil
    THEN [watchers EXCEPT ![w].done = TRUE]
    ELSE watchers

\* Mutant: the deferred c.Unlock() is missing.
UnlockMissing(d) == mu

\* c.Unlock()
Unlock(d) == [mu EXCEPT ![d] = Nil]

\* The method of t returns what the backend answered (r): the deferred
\* close(done) and c.Unlock() run.
ReturnWith(t, r) ==
    LET d == thr[t].dsn
        c == conns[d]
        op == thr[t].op
    IN /\ txs' = [txs EXCEPT ![c.tx] = [r.tx EXCEPT !.cur =
                         txs[c.tx].cur + (r.tx.cur - Backend(t, d).cur)]]
       /\ conns' = [conns EXCEPT ![d].saves = r.saves]
       /\ txHandles' = IF op = "Begin" /\ r.err = "nil"
                       THEN txHandles (+) SetToBag({Handle(r.id, c)})
                       ELSE txHandles
       /\ stmts' = IF op \in PrepareOps /\ r.err = "nil"
                   THEN [stmts EXCEPT ![ns + 1] = NewStmt(c, op)]
                   ELSE stmts
       /\ ns' = IF op \in PrepareOps /\ r.err = "nil" THEN ns + 1 ELSE ns
       /\ watchers' = CloseDone(thr[t].w)
       /\ mu' = Unlock(d)
       /\ thr' = [thr EXCEPT ![t] = [Idle EXCEPT !.rows = r.rows]]
       /\ last' = Ret(op, d, r.err, "conn", r.sql, r.res, r.id)

\* The call of t runs on the real transaction and the method returns.
Return(t, fail) ==
    /\ ~crashed
    /\ thr[t].pc = "run"
    /\ LET d == thr[t].dsn
           c == conns[d]
           op == thr[t].op
       IN IF c.tx = Nil
          THEN \* c.tx.Exec on a nil *sql.Tx
               /\ ~fail
               /\ crashed' = TRUE
               /\ conns' = IF op = "Begin" THEN [conns EXCEPT ![d].saves = NextSave(c)]
                           ELSE conns
               /\ mu' = Unlock(d)
               /\ thr' = [thr EXCEPT ![t] = [Idle EXCEPT !.rows = thr[t].rows]]
               /\ last' = Ret(op, d, "panic", "conn", << >>, -1, "")
               /\ UNCHANGED <<txs, txHandles, watchers, stmts, ns>>
          ELSE /\ ReturnWith(t, Result(t, fail))
               /\ UNCHANGED crashed
    /\ UNCHANGED <<db, realDBs, refs, options, drvOK, dmu, nconn, ncall>>

\* tx.Query or tx.QueryContext has returned a result set and rows.read fails
\* on it (rs.Err() after rs.Next() returned false): buildRows returns the
\* error, and the deferred rs.Close() has closed the result set at the latest.
ReadError(t) ==
    LET x == Backend(t, thr[t].dsn)
    IN [tx |-> SqlRowsClose(SqlRowsOpen(x)),
        err |-> "ErrRead", res |-> -1, sql |-> <<UsersSQL>>, id |-> "",
        rows |-> thr[t].rows, saves |-> conns[thr[t].dsn].saves]

\* conn.Query or conn.QueryContext of t returns the error of buildRows.
QueryReadFails(t) ==
    /\ ~crashed
    /\ thr[t].pc = "run"
    /\ thr[t].op \in QueryOps
    /\ thr[t].cx \in {"bg", "live"}
    /\ conns[thr[t].dsn].tx # Nil
    /\ TxQuery(Backend(t, thr[t].dsn), FALSE).err = "nil"
    /\ ReturnWith(t, ReadError(t))
    /\ UNCHANGED <<db, realDBs, refs, options, drvOK, dmu, nconn, ncall, crashed>>

---------------------------------------------------------------------------
\* src/db.go:281 rows.Next and src/db.go:294 rows.Close, on the buffer the
\* caller got from Query.  database/sql calls Next until it returns io.EOF.

\* Mutant: Next copies the row at the old position.
NextStale(r) ==
    LET pos == r.pos + 1
    IN [rows |-> [r EXCEPT !.pos = pos],
        err |-> IF pos > Len(r.rows) THEN "EOF" ELSE "nil",
        res |-> IF pos > Len(r.rows) \/ r.pos = 0 THEN -1 ELSE r.rows[r.pos]]

\* r.pos++; if r.pos > len(r.rows) { return io.EOF }; dest = r.rows[r.pos-1]
\* (res: the value copied into dest, -1 when dest is left as it was).
Next_(r) ==
    LET pos == r.pos + 1
    IN [rows |-> [r EXCEPT !.pos = pos],
        err |-> IF pos > Len(r.rows) THEN "EOF" ELSE "nil",
        res |-> IF pos > Len(r.rows) THEN -1 ELSE r.rows[pos]]

\* rs.sets[rs.pos] (Go counts the sets from 0).
Current(rs) == rs.sets[rs.pos + 1]

\* Mutant: Next always reads the first result set.
SetsNextFirst(rs) ==
    LET r == Next_(rs.sets[1])
    IN [rs |-> [rs EXCEPT !.sets[1] = r.rows], err |-> r.err, res |-> r.res]

\* src/db.go:335 rowSets.Next: rs.sets[rs.pos].Next(dest)
SetsNext(rs) ==
    LET r == Next_(Current(rs))
    IN [rs |-> [rs EXCEPT !.sets[rs.pos + 1] = r.rows], err |-> r.err, res |-> r.res]

\* src/db.go:326 rowSets.Columns: rs.sets[rs.pos].cols
Columns(rs) == Current(rs).cols

\* src/db_go18.go:30 rowSets.HasNextResultSet: rs.pos+1 < len(rs.sets)
HasNextResultSet(rs) == rs.pos + 1 < Len(rs.sets)

\* src/db_go18.go:35 rowSets.NextResultSet
NextResultSet(rs) ==
    IF ~HasNextResultSet(rs) THEN [rs |-> rs, err |-> "EOF"]
    ELSE [rs |-> [rs EXCEPT !.pos = @ + 1], err |-> "nil"]

\* Next has returned io.EOF on the current set of the buffer.
AtEOF(rs) == Current(rs).pos > Len(Current(rs).rows)

RowsNext(t) ==
    /\ ~crashed
    /\ thr[t].rows # NoRows
    /\ LET r == SetsNext(thr[t].rows)
       IN /\ thr' = [thr EXCEPT ![t].rows = r.rs]
          /\ last' = Ret("Next", "", r.err, "none", << >>, r.res, "")
    /\ UNCHANGED <<db, realDBs, conns, txs, refs, txHandles, options, drvOK, dmu, crashed,
                   nconn, mu, watchers, stmts, ns, ncall>>

\* The caller asks for the columns of the buffer (returned in last.sql).
RowsColumns(t) ==
    /\ ~crashed
    /\ thr[t].rows # NoRows
    /\ last' = Ret("Columns", "", "nil", "none", Columns(thr[t].rows), -1, "")
    /\ UNCHANGED <<db, realDBs, conns, txs, refs, txHandles, options, drvOK, dmu, crashed,
                   nconn, mu, thr, watchers, stmts, ns, ncall>>

\* The caller asks whether there is a next result set (res: 1 yes, 0 no).
RowsHasNextResultSet(t) ==
    /\ ~crashed
    /\ thr[t].rows # NoRows
    /\ last' = Ret("HasNextResultSet", "", "nil", "none", << >>,
                   IF HasNextResultSet(thr[t].rows) THEN 1 ELSE 0, "")
    /\ UNCHANGED <<db, realDBs, conns, txs, refs, txHandles, options, drvOK, dmu, crashed,
                   nconn, mu, thr, watchers, stmts, ns, ncall>>

\* The caller moves to the next result set.
RowsNextResultSet(t) ==
    /\ ~crashed
    /\ thr[t].rows # NoRows
    /\ LET r == NextResultSet(thr[t].rows)
       IN /\ thr' = [thr EXCEPT ![t].rows = r.rs]
          /\ last' = Ret("NextResultSet", "", r.err, "none", << >>, -1, "")
    /\ UNCHANGED <<db, realDBs, conns, txs, refs, txHandles, options, drvOK, dmu, crashed,
                   nconn, mu, watchers, stmts, ns, ncall>>

\* return nil: the caller is done with the buffer.
RowsClose(t) ==
    /\ ~crashed
    /\ thr[t].rows # NoRows
    /\ thr' = [thr EXCEPT ![t].rows = NoRows]
    /\ last' = Ret("RowsClose", "", "nil", "none", << >>, -1, "")
    /\ UNCHANGED <<db, realDBs, conns, txs, refs, txHandles, options, drvOK, dmu, crashed,
                   nconn, mu, watchers, stmts, ns, ncall>>

---------------------------------------------------------------------------
\* src/db_go18.go:54 the watcher goroutine of beginTxOnce, and the contexts.

\* c.ctx of the conn the goroutine w was started for is nil: c.ctx.Done()
\* and c.cancel() are calls on nil values.
NoRoot(w) == w.tx # Nil /\ txs[w.tx].ctx = "none"

\* <-c.ctx.Done() is ready: the conn the watcher was started for has its root
\* context cancelled, whether or not the conn is still in the registry.
RootDone(w) == w.tx # Nil /\ txs[w.tx].ctx = "cancelled"

\* The cases of the outer select that are ready.
OuterSelect(w) ==
    (IF w.cx THEN {"ctx"} ELSE {}) \cup (IF w.done THEN {"done"} ELSE {})
        \cup (IF RootDone(w) THEN {"root"} ELSE {})

\* select { case <-done: default: c.cancel() }
InnerSelect(w) == IF w.done THEN "done" ELSE "default"

\* The goroutine of slot i has returned: its call no longer has a watcher.
Forget(i) == [t \in Callers |-> IF thr[t].w = i THEN [thr[t] EXCEPT !.w = Nil] ELSE thr[t]]

\* The watcher leaves the outer select by a case that is ready.
WatcherOuter(i, b) ==
    /\ ~crashed
    /\ watchers[i].pc = "outer"
    /\ IF NoRoot(watchers[i])
       THEN \* the operands of the select are evaluated on entering it
            /\ b = "root"
            /\ crashed' = TRUE
            /\ UNCHANGED <<watchers, thr>>
       ELSE /\ b \in OuterSelect(watchers[i])
            /\ watchers' = [watchers EXCEPT ![i] =
                                IF b = "ctx" THEN [@ EXCEPT !.pc = "inner"] ELSE Exited]
            /\ thr' = IF b = "ctx" THEN thr ELSE Forget(i)
            /\ UNCHANGED crashed
    /\ UNCHANGED <<db, realDBs, conns, txs, refs, txHandles, options, drvOK, dmu,
                   nconn, last, mu, stmts, ns, ncall>>

\* Mutant: one root context for the transactions of every identifier.
CancelRootShared(w) ==
    [k \in DOMAIN txs |-> IF txs[k].ctx = "live"
                          THEN [txs[k] EXCEPT !.ctx = "cancelled"] ELSE txs[k]]

\* c.cancel(): the root context of the conn the watcher belongs to.
CancelRoot(w) ==
    IF txs[w.tx].ctx = "live"
    THEN [txs EXCEPT ![w.tx].ctx = "cancelled"]
    ELSE txs

\* The watcher saw the context of its call cancelled: the inner select.
WatcherInner(i) ==
    /\ ~crashed
    /\ watchers[i].pc = "inner"
    /\ txs' = IF InnerSelect(watchers[i]) = "default" THEN CancelRoot(watchers[i])
              ELSE txs
    /\ watchers' = [watchers EXCEPT ![i] = Exited]
    /\ thr' = Forget(i)
    /\ UNCHANGED <<db, realDBs, conns, refs, txHandles, options, drvOK, dmu, crashed,
                   nconn, last, mu, stmts, ns, ncall>>

\* The caller cancels the context of the call t is in.
Cancel(t) ==
    /\ ~crashed
    /\ thr[t].pc \in {"lock", "run"}
    /\ thr[t].cx = "live"
    /\ thr' = [thr EXCEPT ![t].cx = IF thr[t].pc = "lock" THEN "cancelled" ELSE "late"]
    /\ watchers' = IF thr[t].w # Nil
                   THEN [watchers EXCEPT ![thr[t].w].cx = TRUE]
                   ELSE watchers
    /\ UNCHANGED <<db, realDBs, conns, txs, refs, txHandles, options, drvOK, dmu, crashed,
                   nconn, last, mu, stmts, ns, ncall>>

\* The caller cancels the context of a call that has returned (cancel1()
\* after db.ExecContext returned).
CancelLate(i) ==
    /\ ~crashed
    /\ watchers[i].done
    /\ ~watchers[i].cx
    /\ watchers' = [watchers EXCEPT ![i].cx = TRUE]
    /\ UNCHANGED <<db, realDBs, conns, txs, refs, txHandles, options, drvOK, dmu, crashed,
                   nconn, last, mu, thr, stmts, ns, ncall>>

\* database/sql: the goroutine of a transaction begun with a context rolls the
\* transaction back once the context is done; its statements go with it.
AwaitDone(d) ==
    /\ ~crashed
    /\ InMap(d)
    /\ Ctx(conns[d]) = "cancelled"
    /\ ~txs[conns[d].tx].done
    /\ txs' = [txs EXCEPT ![conns[d].tx] = TxRollback(@, FALSE).tx]
    /\ stmts' = ClosePrepared(conns[d].tx)
    /\ UNCHANGED <<db, realDBs, conns, refs, txHandles, options, drvOK, dmu, crashed,
                   nconn, last, mu, thr, watchers, ns, ncall>>

---------------------------------------------------------------------------
\* src/db_go18.go:152 stmt.ExecContext and src/db_go18.go:161
\* stmt.QueryContext, on a statement that PrepareContext returned, and the
\* goroutine PrepareContext started for it (src/db_go18.go:134).

\* The statements PrepareContext returned.
Prepared == {i \in 1..MaxStmts : i <= ns /\ stmts[i].wpc # "none"}

\* The methods of stmt that take a context, and those that take none
\* (src/db.go:251 stmt.Exec, src/db.go:263 stmt.Query).
StmtOps == {"StmtExecContext", "StmtQueryContext"}
StmtPlainOps == {"StmtExec", "StmtQuery"}

\* s.st.ExecContext(ctx, args...) and s.st.QueryContext(ctx, args...) of the
\* prepared statement s on the real transaction t: database/sql refuses a
\* closed statement, then a context that is done, then a finished
\* transaction; op is the method of stmt.  A query that succeeds leaves its
\* result set open on the transaction.
StmtRun(s, t, op, cx, fail) ==
    IF s.closed THEN [tx |-> t, res |-> -1, err |-> "ErrStmtClosed"]
    ELSE IF cx = "cancelled" THEN [tx |-> t, res |-> -1, err |-> "ErrCanceled"]
    ELSE IF op \in {"StmtExecContext", "StmtExec"}
    THEN LET r == TxExec(t, InsertSQL, fail)
         IN [tx |-> r.tx, res |-> -1, err |-> r.err]
    ELSE LET q == TxQuery(t, fail)
         IN [tx |-> IF q.err = "nil" THEN SqlRowsOpen(t) ELSE t,
             res |-> q.res, err |-> q.err]

\* rows, err := s.st.Query(...) has returned a result set: the method goes
\* on to buildRows(rows) instead of returning.
StmtOpens(op, r) == op \in {"StmtQuery", "StmtQueryContext"} /\ r.err = "nil"

\* s.closeDone(value): the statement hands value to its watcher, once.
StmtCloseDone(s, value) ==
    [s EXCEPT !.sig = IF @ = "none" THEN (IF value THEN "erred" ELSE "ok") ELSE @]

\* if err != nil { s.closeDone(true) }, in the methods that take a context.
StmtFailed(s, op, err) ==
    IF op \in StmtOps /\ err # "nil" THEN StmtCloseDone(s, TRUE) ELSE s

\* stmt.ExecContext or stmt.QueryContext of statement i with a context in
\* state cx, or stmt.Exec or stmt.Query ("bg": no context), up to the return
\* of the call on s.st.  None of them takes c.Lock().  Exec, and a Query
\* that s.st refused, return here; a Query that got its result set holds it
\* open while other goroutines run, until StmtRead or StmtQueryReadFails.
StmtCall(i, op, cx, fail) ==
    /\ ~crashed
    /\ i \in 1..MaxStmts /\ i <= ns
    /\ ~stmts[i].rel
    /\ op \in StmtOps \cup StmtPlainOps
    /\ op \in StmtOps => i \in Prepared
    /\ cx \in (IF op \in StmtOps THEN {"live", "cancelled"} ELSE {"bg"})
    /\ LET s == stmts[i]
           d == s.dsn
       IN /\ InMap(d) /\ conns[d].cid = s.cid
          /\ refs[d] > InFlightOn(d)
          /\ op \in {"StmtExecContext", "StmtExec"}
                => TotalRows + Pending(ExecOps) < MaxRows
          /\ LET x == Backend(0, d)
                 r == StmtRun(s, x, op, cx, fail)
             IN /\ txs' = [txs EXCEPT ![s.tx] = [r.tx EXCEPT !.cur =
                                   txs[s.tx].cur + (r.tx.cur - x.cur)]]
                /\ IF StmtOpens(op, r)
                   THEN /\ stmts' = [stmts EXCEPT ![i].rd = op]
                        /\ UNCHANGED last
                   ELSE /\ stmts' = [stmts EXCEPT ![i] = StmtFailed(s, op, r.err)]
                        /\ last' = Ret(op, d, r.err, "none",
                                       IF op \in {"StmtExecContext", "StmtExec"}
                                       THEN <<InsertSQL>> ELSE <<UsersSQL>>,
                                       r.res, ToString(i))
    /\ UNCHANGED <<db, realDBs, conns, refs, txHandles, options, drvOK, dmu, crashed, nconn,
                   mu, thr, watchers, ns, ncall>>

\* return buildRows(rows), in stmt.Query and stmt.QueryContext of statement
\* i: the rows are read to the end, where database/sql closes the result
\* set, and the call returns them.  On a transaction that was rolled back in
\* the meantime the result set is closed already and the read returns the
\* error it was closed with.
StmtRead(i) ==
    /\ ~crashed
    /\ i \in 1..MaxStmts
    /\ stmts[i].rd # ""
    /\ LET s == stmts[i]
           x == txs[s.tx]
       IN IF x.done
          THEN /\ last' = Ret(s.rd, s.dsn, "ErrRead", "none", <<UsersSQL>>, -1,
                              ToString(i))
               /\ UNCHANGED txs
          ELSE /\ txs' = [txs EXCEPT ![s.tx] = SqlRowsExhaust(x)]
               /\ last' = Ret(s.rd, s.dsn, "nil", "none", <<UsersSQL>>,
                              SeedRows + x.ins, ToString(i))
    /\ stmts' = [stmts EXCEPT ![i].rd = ""]
    /\ UNCHANGED <<db, realDBs, conns, refs, txHandles, options, drvOK, dmu, crashed, nconn,
                   mu, thr, watchers, ns, ncall>>

\* rows.read fails on the result set that s.st.Query or s.st.QueryContext of
\* statement i returned (rs.Err() after rs.Next() returned false, which
\* closed it): stmt.Query or stmt.QueryContext (op) returns the error of
\* buildRows; no rs.Close() is written in them.
StmtQueryReadFails(i, op) ==
    /\ ~crashed
    /\ i \in 1..MaxStmts
    /\ op \in {"StmtQuery", "StmtQueryContext"}
    /\ stmts[i].rd = op
    /\ ~txs[stmts[i].tx].done
    /\ txs' = [txs EXCEPT ![stmts[i].tx] = SqlRowsExhaust(@)]
    /\ stmts' = [stmts EXCEPT ![i].rd = ""]
    /\ last' = Ret(op, stmts[i].dsn, "ErrRead", "none", <<UsersSQL>>, -1, ToString(i))
    /\ UNCHANGED <<db, realDBs, conns, refs, txHandles, options, drvOK, dmu, crashed, nconn,
                   mu, thr, watchers, ns, ncall>>

\* s.st.Close(): database/sql closes a prepared statement once; closing it
\* again does nothing and returns nil.
StmtCloseResult(s, fail) == IF s.closed THEN "nil" ELSE IF fail THEN "ErrBackend" ELSE "nil"

\* src/db.go:259 stmt.Close: the owner of statement i is done with it.
StmtClose(i, fail) ==
    /\ ~crashed
    /\ i \in 1..MaxStmts /\ i <= ns
    /\ ~stmts[i].rel
    /\ fail => ~stmts[i].closed
    /\ stmts' = [stmts EXCEPT ![i].closed = TRUE, ![i].rel = TRUE]
    /\ last' = Ret("StmtClose", stmts[i].dsn, StmtCloseResult(stmts[i], fail), "none",
                   << >>, -1, ToString(i))
    /\ UNCHANGED <<db, realDBs, conns, txs, refs, txHandles, options, drvOK, dmu, crashed,
                   nconn, mu, thr, watchers, ns, ncall>>

\* The cases of the select of the watcher of statement s that are ready.
StmtSelect(s) ==
    (IF RootDone(s) THEN {"root"} ELSE {}) \cup (IF s.sig # "none" THEN {"sig"} ELSE {})

\* case erred := <-stmtFailedStr: if erred { st.Close() }
StmtReceive(s) == [s EXCEPT !.closed = @ \/ s.sig = "erred", !.wpc = "exited"]

\* The watcher of statement i leaves its select by a case that is ready.  The
\* value st.Close() returns to it (werr) is not looked at: the call is a
\* statement of its own (src/db_go18.go:139).
StmtWatcher(i, b, fail) ==
    /\ ~crashed
    /\ stmts[i].wpc = "wait"
    /\ IF NoRoot(stmts[i])
       THEN \* the operands of the select are evaluated on entering it
            /\ b = "root" /\ ~fail
            /\ crashed' = TRUE
            /\ UNCHANGED stmts
       ELSE /\ b \in StmtSelect(stmts[i])
            /\ fail => (b = "sig" /\ stmts[i].sig = "erred" /\ ~stmts[i].closed)
            /\ stmts' = [stmts EXCEPT ![i] =
                            IF b = "sig"
                            THEN [StmtReceive(@) EXCEPT
                                    !.werr = IF stmts[i].sig = "erred"
                                             THEN StmtCloseResult(stmts[i], fail) ELSE @]
                            ELSE [@ EXCEPT !.wpc = "exited"]]
            /\ UNCHANGED crashed
    /\ UNCHANGED <<db, realDBs, conns, txs, refs, txHandles, options, drvOK, dmu,
                   nconn, last, mu, thr, watchers, ns, ncall>>

---------------------------------------------------------------------------
\* Callers that run concurrently on healthy backends and pass contexts that
\* are never cancelled.
ConcOps == LockedOps \ {"Commit", "Rollback"}

ConcNext ==
    \/ \E d \in SaveDsns, f \in FaultChoices :
          /\ ~InMap(d) => nconn = 0
          /\ refs[d] < MaxCallers
          /\ Open(d, f)
    \/ \E t \in Callers, op \in ConcOps, d \in SaveDsns :
          ncall < MaxCalls /\ Call(t, op, d, "bg")
    \/ \E t \in Callers, h \in BagToSet(txHandles), op \in {"Commit", "Rollback"} :
          ncall < MaxCalls /\ TxCall(t, op, h)
    \/ \E t \in Callers : LockConn(t, FALSE)
    \/ \E t \in Callers : Return(t, FALSE)
    \/ \E i \in 1..MaxWatchers, b \in {"ctx", "done", "root"} : WatcherOuter(i, b)

ConcSpec == Init /\ [][ConcNext]_vars

\* Goroutines that each query and then insert, on both identifiers
\* (TestShouldPerformParallelActions): db.Query and db.Exec, which reach the
\* conn as Query and Exec or, through database/sql since go1.8, as
\* QueryContext and ExecContext with a context that is never cancelled; the
\* watchers these start run beside the calls.
ParNext ==
    \/ \E d \in Dsns : Open(d, FALSE)
    \/ \E t \in Callers, d \in Dsns :
          \E op \in (IF thr[t].rows = NoRows THEN QueryOps ELSE ExecOps) :
             /\ ncall < MaxParCalls
             /\ Call(t, op, d, "bg")
    \/ \E t \in Callers : LockConn(t, FALSE)
    \/ \E t \in Callers : Return(t, FALSE)
    \/ \E i \in 1..MaxWatchers, b \in {"ctx", "done", "root"} : WatcherOuter(i, b)

ParSpec == Init /\ [][ParNext]_vars

\* Callers that read the rows of their queries while the connection is used
\* (TestShouldNotHoldConnectionForRows): db.Query and db.Exec reach the conn
\* as Query and Exec or as QueryContext and ExecContext with a context that
\* is never cancelled; the watchers these start run beside the calls.
RowsNextStep ==
    \/ \E d \in SaveDsns : refs[d] < MaxCallers /\ Open(d, FALSE)
    \/ \E t \in Callers, op \in QueryOps \cup ExecOps, d \in SaveDsns :
          ncall < MaxCalls /\ Call(t, op, d, "bg")
    \/ \E t \in Callers : LockConn(t, FALSE)
    \/ \E t \in Callers : Return(t, FALSE)
    \/ \E t \in Callers : thr[t].rows # NoRows /\ ~AtEOF(thr[t].rows) /\ RowsNext(t)
    \/ \E t \in Callers : RowsClose(t)
    \/ \E i \in 1..MaxWatchers, b \in {"ctx", "done", "root"} : WatcherOuter(i, b)

RowsSpec == Init /\ [][RowsNextStep]_vars

\* Callers that pass contexts they may cancel, during the call or after it.
\* Of the goroutines between calls, which run the same code, the first makes
\* the next call.  The Open that creates the conn may fail to begin the real
\* transaction: the first context-aware call then begins it, with a root
\* context.
CtxNext ==
    \/ \E d \in SaveDsns, f \in FaultChoices :
          /\ ~InMap(d) => nconn = 0
          /\ refs[d] < MaxCallers
          /\ Open(d, f)
    \/ \E t \in Callers, op \in CtxOps, d \in SaveDsns, cx \in {"live", "cancelled"} :
          /\ ncall < MaxCtxCalls
          /\ \A u \in Callers : u < t => thr[u].pc # "idle"
          /\ Call(t, op, d, cx)
    \/ \E t \in Callers : LockConn(t, FALSE)
    \/ \E t \in Callers, f \in FaultChoices : (f => thr[t].cx = "late") /\ Return(t, f)
    \/ \E t \in Callers : Cancel(t)
    \/ \E i \in 1..MaxWatchers : CancelLate(i)
    \/ \E i \in 1..MaxWatchers, b \in {"ctx", "done", "root"} : WatcherOuter(i, b)
    \/ \E i \in 1..MaxWatchers : WatcherInner(i)
    \/ \E d \in SaveDsns : AwaitDone(d)

CtxSpec == Init /\ [][CtxNext]_vars

\* Two identifiers, "one" opened before "two", each opened once; calls of
\* ExecContext on either, with contexts that are cancelled before the call,
\* during it, or never.
IsoNext ==
    \/ \E d \in Dsns :
          /\ refs[d] = 0
          /\ ~InMap(d) => nconn = (IF d = "one" THEN 0 ELSE 1)
          /\ \E f \in FaultChoices : Open(d, f)
    \/ \E t \in Callers, d \in Dsns, cx \in {"live", "cancelled"} :
          /\ ncall < MaxCtxCalls
          /\ \A u \in Callers : u < t => thr[u].pc # "idle"
          /\ Call(t, "ExecContext", d, cx)
    \/ \E t \in Callers : LockConn(t, FALSE)
    \/ \E t \in Callers, f \in FaultChoices : (f => thr[t].cx = "late") /\ Return(t, f)
    \/ \E t \in Callers : Cancel(t)
    \/ \E i \in 1..MaxWatchers, b \in {"ctx", "done", "root"} : WatcherOuter(i, b)
    \/ \E i \in 1..MaxWatchers : WatcherInner(i)
    \/ \E d \in Dsns : AwaitDone(d)

IsoSpec == Init /\ [][IsoNext]_vars

\* One identifier whose first Open may fail to begin the transaction, so that
\* the first context-aware call finds a conn without one, with a backend that
\* may fail that begin too; the contexts of the calls are cancelled before
\* the call, during it, or never.
LazyNext ==
    \/ \E d \in SaveDsns, f \in FaultChoices :
          /\ ~InMap(d) => nconn = 0
          /\ refs[d] < MaxCallers
          /\ Open(d, f)
    \/ \E t \in Callers, op \in CtxOps, d \in SaveDsns, cx \in {"live", "cancelled"} :
          /\ ncall < MaxCtxCalls
          /\ \A u \in Callers : u < t => thr[u].pc # "idle"
          /\ Call(t, op, d, cx)
    \/ \E t \in Callers, f \in FaultChoices : LockConn(t, f)
    \/ \E t \in Callers, f \in FaultChoices : (f => thr[t].cx = "late") /\ Return(t, f)
    \/ \E t \in Callers : Cancel(t)
    \/ \E i \in 1..MaxWatchers, b \in {"ctx", "done", "root"} : WatcherOuter(i, b)
    \/ \E i \in 1..MaxWatchers : WatcherInner(i)
    \/ \E d \in SaveDsns : AwaitDone(d)

LazySpec == Init /\ [][LazyNext]_vars

\* The watchers of ExecContext calls, under a fair scheduler: the Go scheduler
\* runs every goroutine that can run, and a call on the backend returns.
WatchNext ==
    \/ \E d \in SaveDsns, f \in FaultChoices :
          /\ ~InMap(d) => nconn = 0
          /\ refs[d] < MaxCallers
          /\ Open(d, f)
    \/ \E t \in Callers, d \in SaveDsns, cx \in {"live", "cancelled"} :
          ncall < MaxCtxCalls /\ Call(t, "ExecContext", d, cx)
    \/ \E t \in Callers : LockConn(t, FALSE)
    \/ \E t \in Callers, f \in FaultChoices : (f => thr[t].cx = "late") /\ Return(t, f)
    \/ \E t \in Callers : Cancel(t)
    \/ \E i \in 1..MaxWatchers : CancelLate(i)
    \/ \E i \in 1..MaxWatchers, b \in {"ctx", "done", "root"} : WatcherOuter(i, b)
    \/ \E i \in 1..MaxWatchers : WatcherInner(i)
    \/ \E d \in SaveDsns : AwaitDone(d)

WatchFairSpec ==
    /\ Init /\ [][WatchNext]_vars
    /\ \A i \in 1..MaxWatchers :
          /\ WF_vars(\E b \in {"ctx", "done", "root"} : WatcherOuter(i, b))
          /\ WF_vars(WatcherInner(i))
    /\ \A t \in Callers :
          WF_vars(\E f \in FaultChoices : (f => thr[t].cx = "late") /\ Return(t, f))

---------------------------------------------------------------------------
\* Statements prepared with a context and used with contexts, next to calls
\* of ExecContext on the conn whose contexts are cancelled.  database/sql
\* holds one driver.Conn of the identifier, so the calls come one at a time;
\* of the goroutines between calls, which are alike, the first calls next.  The watcher of a statement is
\* a goroutine the scheduler runs, and so is the goroutine of database/sql
\* that rolls back a transaction whose context is done.
StmtNext ==
    \/ \E d \in SaveDsns, f \in FaultChoices :
          /\ ~InMap(d) => nconn = 0
          /\ refs[d] = 0
          /\ Open(d, f)
    \/ \E t \in Callers, d \in SaveDsns :
          /\ ncall < MaxCtxCalls
          /\ \A u \in Callers : u < t => thr[u].pc # "idle"
          /\ \/ Call(t, "PrepareContext", d, "live")
             \/ Call(t, "ExecContext", d, "cancelled")
    \/ \E t \in Callers : LockConn(t, FALSE)
    \/ \E t \in Callers : Return(t, FALSE)
    \/ \E i \in 1..MaxWatchers, b \in {"ctx", "done", "root"} : WatcherOuter(i, b)
    \/ \E i \in 1..MaxWatchers : WatcherInner(i)
    \/ \E d \in SaveDsns : AwaitDone(d)
    \/ \E i \in 1..MaxStmts, op \in StmtOps, cx \in {"live", "cancelled"},
          f \in FaultChoices : (f => cx = "live") /\ StmtCall(i, op, cx, f)
    \/ \E i \in 1..MaxStmts : StmtRead(i)
    \/ \E i \in 1..MaxStmts : StmtQueryReadFails(i, "StmtQueryContext")
    \/ \E i \in 1..MaxStmts, b \in {"root", "sig"} : StmtWatcher(i, b, FALSE)

StmtFairSpec ==
    /\ Init /\ [][StmtNext]_vars
    /\ \A i \in 1..MaxStmts : WF_vars(\E b \in {"root", "sig"} : StmtWatcher(i, b, FALSE))
    /\ \A d \in SaveDsns : WF_vars(AwaitDone(d))

\* The same, with owners that close their statements (src/db.go:259).
StmtCloseNext ==
    \/ StmtNext
    \/ \E i \in 1..MaxStmts : StmtClose(i, FALSE)

StmtCloseFairSpec ==
    /\ Init /\ [][StmtCloseNext]_vars
    /\ \A i \in 1..MaxStmts : WF_vars(\E b \in {"root", "sig"} : StmtWatcher(i, b, FALSE))
    /\ \A d \in SaveDsns : WF_vars(AwaitDone(d))

---------------------------------------------------------------------------
\* A caller begins a nested transaction on "one" and prepares a statement in
\* it with a context that is already cancelled (database/sql hands the call
\* to the driver.Conn of the nested transaction when the context is
\* cancelled after it took the conn, and returns the context's error itself
\* otherwise); "two" is opened, pinged and closed; the nested transaction is
\* rolled back and "one" is closed, as the deferred calls of the test run.
\* The statements are healthy; the Open that creates a conn may fail to
\* begin its transaction.
DiscardNext ==
    \/ \E d \in Dsns, f \in FaultChoices : refs[d] < MaxCallers /\ Open(d, f)
    \/ \E t \in Callers :
          /\ ncall < MaxCalls
          /\ HandlesOn("one") + Pending({"Begin", "Rollback"}) = 0
          /\ Call(t, "Begin", "one", "bg")
    \/ \E t \in Callers :
          /\ ncall < MaxCalls
          /\ HandlesOn("one") > 0
          /\ Call(t, "PrepareContext", "one", "cancelled")
    \/ \E t \in Callers, h \in BagToSet(txHandles) : TxCall(t, "Rollback", h)
    \/ \E t \in Callers : LockConn(t, FALSE)
    \/ \E t \in Callers : Return(t, FALSE)
    \/ \E i \in 1..MaxWatchers, b \in {"ctx", "done", "root"} : WatcherOuter(i, b)
    \/ \E i \in 1..MaxWatchers : WatcherInner(i)
    \/ \E d \in Dsns : AwaitDone(d)
    \/ last.op \in {"Rollback", "Close"} /\ Close("one", FALSE)
    \/ Close("two", FALSE)
    \/ \E d \in Dsns : Ping(d, FALSE)

DiscardSpec == Init /\ [][DiscardNext]_vars

---------------------------------------------------------------------------
\* A caller queries the connection, begins a nested transaction, prepares a
\* statement in it, runs the statement, closes it once it has failed, rolls
\* the nested transaction back and closes the connection (TestIssue49).
\* database/sql runs the calls made on the nested transaction on the
\* driver.Conn that transaction holds.  The Open that creates the conn may
\* fail to begin the real transaction.
IssueNext ==
    \/ \E d \in SaveDsns, f \in FaultChoices :
          /\ ~InMap(d) => nconn = 0
          /\ refs[d] < MaxCallers
          /\ Open(d, f)
    \/ \E t \in Callers, d \in SaveDsns :
          /\ ncall = 0
          /\ Call(t, "QueryContext", d, "bg")
    \/ \E t \in Callers : RowsClose(t)
    \/ \E t \in Callers, d \in SaveDsns :
          /\ ncall < MaxParCalls
          /\ HandlesOn(d) + Pending({"Begin", "Rollback"}) = 0
          /\ Call(t, "Begin", d, "bg")
    \/ \E t \in Callers, d \in SaveDsns :
          /\ ncall < MaxParCalls
          /\ HandlesOn(d) > 0
          /\ Call(t, "PrepareContext", d, "bg")
    \/ \E t \in Callers : LockConn(t, FALSE)
    \/ \E t \in Callers : Return(t, FALSE)
    \/ \E i \in 1..MaxWatchers, b \in {"ctx", "done", "root"} : WatcherOuter(i, b)
    \/ \E i \in 1..MaxStmts, f \in FaultChoices : StmtCall(i, "StmtExecContext", "live", f)
    \/ \E i \in 1..MaxStmts, b \in {"root", "sig"} : StmtWatcher(i, b, FALSE)
    \/ \E i \in 1..MaxStmts : stmts[i].sig = "erred" /\ StmtClose(i, FALSE)
    \/ \E t \in Callers, h \in BagToSet(txHandles) :
          /\ \E i \in 1..MaxStmts : stmts[i].rel
          /\ TxCall(t, "Rollback", h)
    \/ \E d \in SaveDsns : last.op = "Rollback" /\ Close(d, FALSE)

IssueSpec == Init /\ [][IssueNext]_vars

---------------------------------------------------------------------------
\* Callers that prepare statements, with and without a context, on a backend
\* that may reject the query, and that insert next to it
\* (TestShouldFailInvalidPrepareStatement).
PrepNext ==
    \/ \E d \in SaveDsns, f \in FaultChoices :
          /\ ~InMap(d) => nconn = 0
          /\ refs[d] < MaxCallers
          /\ Open(d, f)
    \/ \E t \in Callers, op \in PrepareOps \cup {"Exec"}, d \in SaveDsns :
          ncall < MaxCalls /\ Call(t, op, d, "bg")
    \/ \E t \in Callers : LockConn(t, FALSE)
    \/ \E t \in Callers, f \in FaultChoices :
          (f => thr[t].op \in PrepareOps) /\ Return(t, f)
    \/ \E i \in 1..MaxWatchers, b \in {"ctx", "done", "root"} : WatcherOuter(i, b)

PrepSpec == Init /\ [][PrepNext]_vars

---------------------------------------------------------------------------
\* The row buffer taken alone: a query has returned a buffer built from a
\* cursor of the backend, and the caller iterates it (src/db_test.go:595
\* TestShouldGetMultiRowSet), calling Next also after io.EOF.

\* The rows a result set can hold: up to MaxBufRows rows, in ascending or
\* descending order of their value.
RowLists ==
    UNION {{[k \in 1..n |-> k], [k \in 1..n |-> n + 1 - k]} : n \in 0..MaxBufRows}

\* The cursors the backend can answer with: 1..MaxSets result sets, the i-th
\* with the column of the i-th statement of the query.
Cursors ==
    UNION {{[i \in 1..k |-> [rows |-> f[i], cols |-> <<ToString(i)>>]] :
                f \in [1..k -> RowLists]} : k \in 1..MaxSets}

BufInit ==
    /\ db = Nil
    /\ realDBs = {}
    /\ conns = [d \in Dsns |-> NoConn]
    /\ txs = << >>
    /\ refs = [d \in Dsns |-> 0]
    /\ txHandles = EmptyBag
    /\ options = << >>
    /\ drvOK = TRUE
    /\ crashed = FALSE
    /\ nconn = 0
    /\ last = Ret("none", "", "nil", "none", << >>, -1, "")
    /\ mu = [d \in Dsns |-> Nil]
    /\ dmu = << >>
    /\ \E cur \in Cursors :
          thr = [t \in Callers |-> IF t = 1 THEN [Idle EXCEPT !.rows = BuildRows(cur)]
                                   ELSE Idle]
    /\ watchers = [i \in 1..MaxWatchers |-> NoWatcher]
    /\ stmts = [i \in 1..MaxStmts |-> NoStmt]
    /\ ns = 0
    /\ ncall = 0

BufNext ==
    \/ \E t \in Callers :
          /\ thr[t].rows # NoRows
          /\ Current(thr[t].rows).pos < Len(Current(thr[t].rows).rows) + MaxPast
          /\ RowsNext(t)
    \/ \E t \in Callers : RowsColumns(t)
    \/ \E t \in Callers : RowsHasNextResultSet(t)
    \/ \E t \in Callers : RowsNextResultSet(t)

BufSpec == BufInit /\ [][BufNext]_vars


---------------------------------------------------------------------------
\* The arguments of a call taken alone: database/sql hands the driver a list
\* of driver.NamedValue, checks each with conn.CheckNamedValue, and the driver
\* maps the list for the backend with mapNamedArgs.

\* The names an argument can carry ("": positional) and the dynamic types of
\* its value ("Out": sql.Out, the output-parameter marker; "converted": what a
\* checker of the backend has rewritten).
ArgNames == {"", "a"}
ArgTypes == {"Out", "int64", "string"}

\* driver.NamedValue
NamedValue(name, ord, ty) == [Name |-> name, Ordinal |-> ord, Value |-> [type |-> ty, v |-> ord]]

\* The argument lists of a call: 0..MaxArgs values, numbered from 1.
ArgLists ==
    UNION {{[i \in 1..n |-> NamedValue(f[i][1], i, f[i][2])] :
                f \in [1..n -> ArgNames \X ArgTypes]} : n \in 0..MaxArgs}

\* sql.Named(name, value), and a value passed as it is.
Named(name, value) == [kind |-> "NamedArg", Name |-> name, Value |-> value]
Plain(value) == [kind |-> "Value", Name |-> "", Value |-> value]

\* Mutant: every argument is passed positionally.
mapNamedArgsPositional(args) == [i \in 1..Len(args) |-> Plain(args[i].Value)]

\* src/db_go18.go:170 mapNamedArgs
mapNamedArgs(args) ==
    [i \in 1..Len(args) |->
        IF args[i].Name # "" THEN Named(args[i].Name, args[i].Value)
        ELSE Plain(args[i].Value)]

\* The named-value checker of the real connection: none when the backend's
\* conn does not implement driver.NamedValueChecker, else what its
\* CheckNamedValue answers and whether it rewrites the value.
NoChecker == [err |-> "none", conv |-> FALSE]
Checkers ==
    {NoChecker} \cup [err : {"nil", "ErrSkip", "ErrBackend"}, conv : BOOLEAN]

\* Mutant: the checker of the real connection is never asked.
CheckNamedValueOwn(nv, nvc) ==
    [nv |-> nv, err |-> IF nv.Value.type = "Out" THEN "nil" ELSE "ErrSkip"]

\* src/db_go19.go:11 conn.CheckNamedValue
CheckNamedValueResult(nv, nvc) ==
    IF nvc # NoChecker
    THEN [nv |-> IF nvc.conv THEN [nv EXCEPT !.Value.type = "converted"] ELSE nv,
          err |-> nvc.err]
    ELSE [nv |-> nv, err |-> IF nv.Value.type = "Out" THEN "nil" ELSE "ErrSkip"]

\* database/sql checks argument i of the call of goroutine t.
CheckNamedValue(t, i, nvc) ==
    /\ ~crashed
    /\ thr[t].op = ""
    /\ i \in 1..Len(thr[t].args)
    /\ LET r == CheckNamedValueResult(thr[t].args[i], nvc)
       IN /\ thr' = [thr EXCEPT ![t].args[i] = r.nv]
          /\ last' = Ret("CheckNamedValue", "", r.err, "none", << >>, i, "")
    /\ UNCHANGED <<db, realDBs, conns, txs, refs, txHandles, options, drvOK, dmu, crashed,
                   nconn, mu, watchers, stmts, ns, ncall>>

\* The call of goroutine t maps its arguments for the backend.
MapNamedArgs(t) ==
    /\ ~crashed
    /\ thr[t].op = ""
    /\ thr[t].args # << >>
    /\ thr' = [thr EXCEPT ![t].args = mapNamedArgs(@), ![t].op = "mapNamedArgs"]
    /\ last' = Ret("mapNamedArgs", "", "nil", "none", << >>, Len(thr[t].args), "")
    /\ UNCHANGED <<db, realDBs, conns, txs, refs, txHandles, options, drvOK, dmu, crashed,
                   nconn, mu, watchers, stmts, ns, ncall>>

ArgInit ==
    /\ db = Nil
    /\ realDBs = {}
    /\ conns = [d \in Dsns |-> NoConn]
    /\ txs = << >>
    /\ refs = [d \in Dsns |-> 0]
    /\ txHandles = EmptyBag
    /\ options = << >>
    /\ drvOK = TRUE
    /\ crashed = FALSE
    /\ nconn = 0
    /\ last = Ret("none", "", "nil", "none", << >>, -1, "")
    /\ mu = [d \in Dsns |-> Nil]
    /\ dmu = << >>
    /\ \E a \in ArgLists :
          thr = [t \in Callers |-> IF t = 1 THEN [Idle EXCEPT !.args = a] ELSE Idle]
    /\ watchers = [i \in 1..MaxWatchers |-> NoWatcher]
    /\ stmts = [i \in 1..MaxStmts |-> NoStmt]
    /\ ns = 0
    /\ ncall = 0

ArgNext ==
    \/ \E t \in Callers, i \in 1..MaxArgs, nvc \in Checkers :
          /\ i \in 1..Len(thr[t].args)
          /\ thr[t].args[i].Value.type # "converted"
          /\ CheckNamedValue(t, i, nvc)
    \/ \E t \in Callers : MapNamedArgs(t)

ArgSpec == ArgInit /\ [][ArgNext]_vars


---------------------------------------------------------------------------
\* One identifier with one driver.Conn at a time, on a backend that can fail
\* any call: the open and the close, sequential calls of every kind, nested
\* transactions, and prepared statements with their watchers.
ErrNext ==
    \/ \E d \in SaveDsns, f \in FaultChoices :
          /\ ~InMap(d) => nconn = 0
          /\ refs[d] = 0
          /\ Open(d, f)
    \/ \E d \in SaveDsns, f \in FaultChoices : Close(d, f)
    \/ \E t \in Callers, op \in ConcOps, d \in SaveDsns :
          /\ ncall < MaxCtxCalls
          /\ \A u \in Callers : thr[u].pc = "idle" /\ t <= u
          /\ Call(t, op, d, "bg")
    \/ \E t \in Callers, h \in BagToSet(txHandles), op \in {"Commit", "Rollback"} :
          /\ ncall < MaxCtxCalls
          /\ \A u \in Callers : thr[u].pc = "idle" /\ t <= u
          /\ TxCall(t, op, h)
    \/ \E t \in Callers : LockConn(t, FALSE)
    \/ \E t \in Callers, f \in FaultChoices : Return(t, f)
    \/ \E i \in 1..MaxWatchers, b \in {"ctx", "done", "root"} : WatcherOuter(i, b)
    \/ \E i \in 1..MaxStmts, op \in StmtOps \cup StmtPlainOps, f \in FaultChoices :
          StmtCall(i, op, IF op \in StmtOps THEN "live" ELSE "bg", f)
    \/ \E i \in 1..MaxStmts : StmtRead(i)
    \/ \E i \in 1..MaxStmts, f \in FaultChoices : StmtClose(i, f)
    \/ \E i \in 1..MaxStmts, b \in {"root", "sig"}, f \in FaultChoices :
          StmtWatcher(i, b, f)

ErrSpec == Init /\ [][ErrNext]_vars


---------------------------------------------------------------------------
\* Goroutines that begin nested transactions at the same time on one
\* identifier and resolve them, on a backend that can fail the savepoint
\* statements.
BeginNext ==
    \/ \E d \in SaveDsns : refs[d] < MaxCallers /\ Open(d, FALSE)
    \/ \E t \in Callers, d \in SaveDsns : ncall < MaxCalls /\ Call(t, "Begin", d, "bg")
    \/ \E t \in Callers, h \in BagToSet(txHandles), op \in {"Commit", "Rollback"} :
          ncall < MaxCalls /\ TxCall(t, op, h)
    \/ \E t \in Callers : LockConn(t, FALSE)
    \/ \E t \in Callers, f \in FaultChoices : Return(t, f)

BeginSpec == Init /\ [][BeginNext]_vars


---------------------------------------------------------------------------
\* Goroutines that use a prepared statement while others call the logical
\* connection it was prepared on.
StmtConcNext ==
    \/ \E d \in SaveDsns, f \in FaultChoices :
          /\ ~InMap(d) => nconn = 0
          /\ refs[d] < MaxCallers
          /\ Open(d, f)
    \/ \E t \in Callers, op \in PrepareOps \cup {"Query", "Exec"}, d \in SaveDsns :
          /\ ncall < MaxCtxCalls
          /\ \A u \in Callers : u < t => thr[u].pc # "idle"
          /\ Call(t, op, d, "bg")
    \/ \E t \in Callers : LockConn(t, FALSE)
    \/ \E t \in Callers : Return(t, FALSE)
    \/ \E i \in 1..MaxWatchers, b \in {"ctx", "done", "root"} : WatcherOuter(i, b)
    \/ \E i \in 1..MaxStmts, op \in StmtOps \cup StmtPlainOps :
          StmtCall(i, op, IF op \in StmtOps THEN "live" ELSE "bg", FALSE)
    \/ \E i \in 1..MaxStmts : StmtRead(i)
    \/ \E i \in 1..MaxStmts, b \in {"root", "sig"} : StmtWatcher(i, b, FALSE)

StmtConcSpec == Init /\ [][StmtConcNext]_vars


---------------------------------------------------------------------------
\* Goroutines that call one identifier while database/sql opens and closes
\* its driver.Conns, on a backend that can fail the begin and the rollback.
PlainOps == {"Prepare", "Exec", "Query", "Begin"}

CloseConcNext ==
    \/ \E d \in SaveDsns, f \in FaultChoices : refs[d] < MaxCallers /\ Open(d, f)
    \/ \E d \in SaveDsns, f \in FaultChoices : Close(d, f)
    \/ \E t \in Callers, op \in PlainOps, d \in SaveDsns :
          /\ ncall < MaxCtxCalls
          /\ \A u \in Callers : u < t => thr[u].pc # "idle"
          /\ Call(t, op, d, "bg")
    \/ \E t \in Callers, h \in BagToSet(txHandles), op \in {"Commit", "Rollback"} :
          /\ ncall < MaxCtxCalls
          /\ \A u \in Callers : u < t => thr[u].pc # "idle"
          /\ TxCall(t, op, h)
    \/ \E t \in Callers : LockConn(t, FALSE)
    \/ \E t \in Callers : Return(t, FALSE)

CloseConcSpec == Init /\ [][CloseConcNext]_vars

\* Goroutines that call both identifiers, with and without a context, while
\* database/sql opens and closes driver.Conns of both.  Open and Close take
\* the registry lock in one step and run under it in the next, so the steps
\* of the callers and of the watchers fall between the two.  The backend
\* begins and rolls back every real transaction and may fail the calls made
\* on it; "one" is the identifier opened first, and each identifier is
\* opened anew once.  The scheduler lets a goroutine that can take a lock
\* take it in the end (sync.Mutex hands a starving waiter the lock), and the
\* calls of the backend return.
LockNext ==
    \/ \E d \in Dsns :
          /\ refs[d] < MaxCallers
          /\ ~InMap(d) => nconn = (IF d = "one" THEN 0 ELSE 1)
          /\ DrvLock("Open", d)
    \/ \E d \in Dsns : DrvLock("Close", d)
    \/ \E d \in Dsns : ~DrvLockFree /\ Open(d, FALSE)
    \/ \E d \in Dsns : ~DrvLockFree /\ Close(d, FALSE)
    \/ \E t \in Callers, op \in PlainOps \cup CtxOps, d \in Dsns :
          /\ ncall < MaxCtxCalls
          /\ \A u \in Callers : u < t => thr[u].pc # "idle"
          /\ Call(t, op, d, "bg")
    \/ \E t \in Callers, h \in BagToSet(txHandles), op \in {"Commit", "Rollback"} :
          /\ ncall < MaxCtxCalls
          /\ \A u \in Callers : u < t => thr[u].pc # "idle"
          /\ TxCall(t, op, h)
    \/ \E t \in Callers : LockConn(t, FALSE)
    \/ \E t \in Callers, f \in FaultChoices : Return(t, f)
    \/ \E i \in 1..MaxWatchers, b \in {"ctx", "done", "root"} : WatcherOuter(i, b)

LockFairSpec ==
    /\ Init /\ [][LockNext]_vars
    /\ \A t \in Callers :
          /\ SF_vars(LockConn(t, FALSE))
          /\ WF_vars(\E f \in FaultChoices : Return(t, f))
    /\ \A d \in Dsns :
          /\ WF_vars(~DrvLockFree /\ Open(d, FALSE))
          /\ WF_vars(~DrvLockFree /\ Close(d, FALSE))


---------------------------------------------------------------------------
\* Goroutines that call both identifiers while database/sql opens and closes
\* driver.Conns of both, on a healthy backend.  Open and Close take the
\* registry lock in one step and run under it in the next, so the steps of
\* the callers fall between the two; "one" is the identifier opened first,
\* and each identifier is opened anew once.
RegNext ==
    \/ \E d \in Dsns :
          /\ refs[d] < MaxCallers
          /\ ~InMap(d) => nconn = (IF d = "one" THEN 0 ELSE 1)
          /\ DrvLock("Open", d)
    \/ \E d \in Dsns : DrvLock("Close", d)
    \/ \E d \in Dsns : ~DrvLockFree /\ Open(d, FALSE)
    \/ \E d \in Dsns : ~DrvLockFree /\ Close(d, FALSE)
    \/ \E t \in Callers, op \in {"Prepare", "Exec", "Query"}, d \in Dsns :
          /\ ncall < MaxCtxCalls
          /\ \A u \in Callers : u < t => thr[u].pc # "idle"
          /\ Call(t, op, d, "bg")
    \/ \E t \in Callers : LockConn(t, FALSE)
    \/ \E t \in Callers : Return(t, FALSE)

RegSpec == Init /\ [][RegNext]_vars


---------------------------------------------------------------------------
\* Queries on the conn and on prepared statements, on a backend that can fail
\* the query, the reading of its rows and the begin of the Open that creates
\* the conn.  The calls on the conn, which c.Lock() serializes, come one at
\* a time; the queries of the statements, which take no lock, overlap them.
CursorNext ==
    \/ \E d \in SaveDsns, f \in FaultChoices :
          /\ ~InMap(d) => nconn = 0
          /\ refs[d] < MaxCallers
          /\ Open(d, f)
    \/ \E t \in Callers, op \in QueryOps \cup PrepareOps, d \in SaveDsns :
          /\ ncall < MaxCtxCalls
          /\ \A u \in Callers : thr[u].pc = "idle" /\ t <= u
          /\ Call(t, op, d, "bg")
    \/ \E t \in Callers : LockConn(t, FALSE)
    \/ \E t \in Callers, f \in FaultChoices : Return(t, f)
    \/ \E t \in Callers : QueryReadFails(t)
    \/ \E i \in 1..MaxWatchers, b \in {"ctx", "done", "root"} : WatcherOuter(i, b)
    \/ \E i \in 1..MaxStmts, op \in {"StmtQuery", "StmtQueryContext"},
          f \in FaultChoices :
          StmtCall(i, op, IF op \in StmtOps THEN "live" ELSE "bg", f)
    \/ \E i \in 1..MaxStmts : StmtRead(i)
    \/ \E i \in 1..MaxStmts, op \in {"StmtQuery", "StmtQueryContext"} :
          StmtQueryReadFails(i, op)
    \/ \E i \in 1..MaxStmts, b \in {"root", "sig"} : StmtWatcher(i, b, FALSE)

CursorSpec == Init /\ [][CursorNext]_vars



---------------------------------------------------------------------------
\* The registry and the data: both identifiers, no nested transactions.
Next ==
    \/ \E d \in Dsns, f \in FaultChoices : Open(d, f)
    \/ \E d \in Dsns, f \in FaultChoices : Close(d, f)
    \/ \E d \in Dsns, f \in FaultChoices : Exec(d, f)
    \/ \E d \in Dsns, f \in FaultChoices : Query(d, f)
    \/ \E d \in Dsns, f \in FaultChoices : Ping(d, f)

Spec == Init /\ [][Next]_vars

\* The registry of a driver whose options may fail; MaxOpens bounds the
\* objects created, as an Open that fails on an option leaves no other trace.
OptNext ==
    \/ \E d \in Dsns, f \in FaultChoices : nconn < MaxOpens /\ Open(d, f)
    \/ \E d \in Dsns, f \in FaultChoices : Close(d, f)
    \/ \E d \in Dsns, f \in FaultChoices : Exec(d, f)

OptSpec == OptInit /\ [][OptNext]_vars

\* Nested transactions on one logical connection.
SaveNext ==
    \/ \E d \in SaveDsns, f \in FaultChoices : Open(d, f)
    \/ \E d \in SaveDsns, f \in FaultChoices : Close(d, f)
    \/ \E d \in SaveDsns, f \in FaultChoices : Exec(d, f)
    \/ \E d \in SaveDsns, f \in FaultChoices : Query(d, f)
    \/ \E d \in SaveDsns, f \in FaultChoices : Begin(d, f)
    \/ \E h \in BagToSet(txHandles), f \in FaultChoices : Commit(h, f)
    \/ \E h \in BagToSet(txHandles), f \in FaultChoices : Rollback(h, f)

SaveSpec == Init /\ [][SaveNext]_vars

---------------------------------------------------------------------------
\* Properties.

\* The step just taken was a call on dsn that returned without error.
Returned(op, dsn) == last'.op = op /\ last'.dsn = dsn /\ last'.err = "nil"

\* C1: a logical connection opened after the Close that brought its
\* identifier's reference count to zero runs in a brand-new real transaction
\* and sees exactly the seed rows: nothing written before that Close is
\* visible to it.
C1_RollbackOnClose ==
    [][\A d \in Dsns :
        (Returned("Open", d) /\ (conns[d] = NoConn \/ conns[d].opened = 0))
            => /\ conns'[d].tx > Len(txs)
               /\ Visible(d)' = SeedRows]_vars

\* C2: while two identifiers are open, no call made under one changes what
\* the other sees; an insert under an identifier is seen under that
\* identifier, and a query returns what its identifier sees.
C2_Isolation ==
    [][\A a \in Dsns :
        /\ \A b \in Dsns \ {a} :
              (last'.dsn = a /\ refs[b] > 0 /\ refs'[b] > 0) => Visible(b)' = Visible(b)
        /\ Returned("Exec", a) => Visible(a)' = Visible(a) + 1
        /\ Returned("Query", a) => last'.res = Visible(a)]_vars

C2_Witness ==
    /\ refs["one"] > 0 /\ refs["two"] > 0
    /\ last.op = "Exec" /\ last.dsn = "one" /\ last.err = "nil"
    /\ Visible("one") = SeedRows + 1
    /\ Visible("two") = SeedRows

\* C3: the connections of two distinct identifiers are distinct objects that
\* never share a real transaction; an Open of an identifier whose reference
\* count is positive returns the connection and the real transaction the
\* mapping already holds, and an Open of an identifier that is not in the
\* mapping returns a new object with a new real transaction.
C3_OneConnPerIdentifier ==
    /\ [](\A a, b \in Dsns :
            (a # b /\ InMap(a) /\ InMap(b))
                => /\ conns[a].cid # conns[b].cid
                   /\ conns[a].tx # Nil => conns[a].tx # conns[b].tx)
    /\ [][\A d \in Dsns :
            /\ (Returned("Open", d) /\ InMap(d) /\ conns[d].opened > 0)
                  => /\ conns'[d].cid = conns[d].cid
                     /\ conns'[d].tx = conns[d].tx
            /\ (Returned("Open", d) /\ ~InMap(d))
                  => /\ conns'[d].cid > nconn
                     /\ conns'[d].tx > Len(txs)]_vars

C3_Witness ==
    /\ last.op = "Open" /\ last.dsn = "one" /\ last.err = "nil"
    /\ refs["one"] = 2 /\ refs["two"] = 1
    /\ conns["one"].opened = 2
    /\ conns["one"].tx # Nil /\ conns["two"].tx # Nil

\* C4: the Close that takes back the last reference of an identifier leaves
\* the identifier out of the mapping, its real transaction rolled back by
\* that Close and not before, and as many real handles open as before the
\* first Open of the identifier.
C4_OpenCloseRestores ==
    [][\A d \in Dsns :
        (last'.op = "Close" /\ last'.dsn = d /\ refs'[d] = 0)
            => /\ ~InMap(d)'
               /\ conns[d].tx # Nil
               /\ ~txs[conns[d].tx].done /\ txs'[conns[d].tx].done
               /\ Cardinality(realDBs') = conns[d].h0]_vars

\* C5: while an identifier has been opened more often than closed, its entry
\* is in the mapping with the real transaction begun at its first Open, not
\* rolled back and not replaced, and a further Open of the identifier sees
\* every row written so far.
C5_SharedWhileOpen ==
    /\ [](\A d \in Dsns :
            refs[d] > 0 => /\ InMap(d)
                           /\ conns[d].tx # Nil
                           /\ ~txs[conns[d].tx].done)
    /\ [][\A d \in Dsns :
            (refs[d] > 0 /\ refs'[d] > 0)
                => /\ conns'[d].tx = conns[d].tx
                   /\ conns'[d].cid = conns[d].cid
                   /\ (last'.op = "Open" /\ last'.dsn = d) => Visible(d)' = Visible(d)]_vars

\* C6: the real handle exists exactly while the mapping is non-empty.
C6_HandleIffMapping ==
    /\ (db # Nil) <=> (\E d \in Dsns : InMap(d))
    /\ realDBs = IF db = Nil THEN {} ELSE {db}

\* C7: an Open that finds the mapping empty after the last logical connection
\* was closed creates a fresh real handle, and its connection can be pinged.
C7_ReopenAfterClose ==
    [][\A d \in Dsns :
        (Returned("Open", d) /\ \A e \in Dsns : ~InMap(e))
            => /\ db' \notin realDBs
               /\ realDBs' = {db'}]_vars

\* The step just taken resolved the handle h (tx.Commit or tx.Rollback).
Resolved(h) == BagIn(h, txHandles) /\ txHandles' = txHandles (-) SetToBag({h})

\* C8: with a savepoint strategy, a Rollback that succeeds brings the visible
\* count back to what it was at Begin and a Commit that succeeds leaves the
\* count as it is; rows leave a connection only by such a Rollback or by the
\* final Close, and a connection created afterwards sees the seed count.
C8_NestedCommitRollback ==
    [][/\ \A h \in BagToSet(txHandles) :
            (Resolved(h) /\ conns[h.dsn].savePoint # "nil" /\ last'.err = "nil")
                => /\ last'.op = "Rollback" => Visible(h.dsn)' = h.n0
                   /\ last'.op = "Commit" => Visible(h.dsn)' = Visible(h.dsn)
       /\ \A d \in Dsns :
            /\ (Visible(d) >= 0 /\ Visible(d)' < Visible(d))
                  => \/ last'.op = "Rollback" /\ last'.err = "nil"
                     \/ last'.op = "Close" /\ conns[d].opened = 1
            /\ (Returned("Open", d) /\ ~InMap(d)) => Visible(d)' = SeedRows]_vars

C8_Witness ==
    /\ last.op = "Rollback" /\ last.err = "nil" /\ last.id = "tx_2"
    /\ conns["one"].savePoint = "default"
    /\ Visible("one") = SeedRows + 1

\* C9: Begin, Commit and Rollback leave the real transaction of the logical
\* connection as it is (not begun anew, not finished, not replaced); with a
\* savepoint strategy Begin sends SAVEPOINT, Commit RELEASE SAVEPOINT and
\* Rollback ROLLBACK TO SAVEPOINT, each for the identifier its handle got at
\* Begin, which no other unresolved handle carries.
C9_SavepointFrame ==
    [][\A d \in Dsns :
        (last'.dsn = d /\ last'.op \in {"Begin", "Commit", "Rollback"})
            => /\ InMap(d)'
               /\ conns'[d].cid = conns[d].cid
               /\ conns'[d].tx = conns[d].tx
               /\ Len(txs') = Len(txs)
               /\ \A i \in 1..Len(txs) : txs'[i].done = txs[i].done
               /\ conns[d].savePoint # "nil" =>
                    /\ last'.lock = "conn"
                    /\ last'.op = "Begin" =>
                         /\ last'.sql = <<"SAVEPOINT " \o last'.id>>
                         /\ last'.id = "tx_" \o ToString(conns[d].saves + 1)
                         /\ \A h \in BagToSet(txHandles) : h.id # last'.id
                         /\ last'.err = "nil" =>
                              \E h \in BagToSet(txHandles') :
                                  /\ h.id = last'.id
                                  /\ txHandles' = txHandles (+) SetToBag({h})
                    /\ last'.op = "Commit" =>
                         \E h \in BagToSet(txHandles) :
                             /\ Resolved(h)
                             /\ last'.sql = <<"RELEASE SAVEPOINT " \o h.id>>
                    /\ last'.op = "Rollback" =>
                         \E h \in BagToSet(txHandles) :
                             /\ Resolved(h)
                             /\ last'.sql = <<"ROLLBACK TO SAVEPOINT " \o h.id>>]_vars

C9_Witness ==
    /\ last.op = "Commit" /\ last.err = "nil"
    /\ last.sql = <<"RELEASE SAVEPOINT tx_1">>
    /\ conns["one"].saves = 2

\* C10: with the nil strategy Begin returns a handle and Commit and Rollback
\* return nil; none of them sends a statement, takes the lock of the
\* connection or advances the savepoint counter, so what the connection sees
\* is the same after the call.
C10_NilStrategyNoOp ==
    [][\A d \in Dsns :
        (last'.dsn = d /\ last'.op \in {"Begin", "Commit", "Rollback"}
            /\ conns[d].savePoint = "nil")
            => /\ last'.err = "nil"
               /\ last'.sql = << >>
               /\ last'.lock = "none"
               /\ conns' = conns
               /\ txs' = txs
               /\ Visible(d)' = Visible(d)
               /\ last'.op = "Begin" =>
                    BagCardinality(txHandles') = BagCardinality(txHandles) + 1]_vars

C10_Witness ==
    /\ last.op = "Rollback" /\ last.err = "nil" /\ last.id = "_"
    /\ conns["one"].savePoint = "nil"
    /\ Visible("one") = SeedRows + 1

\* C11: an Open that returns an error (the real handle could not be opened, or
\* the real transaction could not be begun) leaves the mapping and every
\* reference count as they were.
C11_OpenFailureLeavesRegistry ==
    [][\A d \in Dsns :
        (last'.op = "Open" /\ last'.dsn = d /\ last'.err # "nil")
            => /\ conns' = conns
               /\ refs' = refs]_vars

\* C12: the Close that brings the reference count of an identifier to zero
\* rolls back a transaction nobody rolled back before, and when that rollback
\* fails Close returns the error and the identifier is out of the mapping.
C12_CloseRemovesOnRollbackError ==
    [][\A d \in Dsns :
        (last'.op = "Close" /\ last'.dsn = d /\ InMap(d) /\ conns[d].opened = 1
            /\ conns[d].tx # Nil)
            => /\ ~txs[conns[d].tx].done
               /\ last'.err # "nil" => ~InMap(d)']_vars

\* The callers whose call is running on the real transaction of dsn.
Executing(dsn) ==
    {t \in Callers : thr[t].pc = "run" /\ thr[t].dsn = dsn /\ thr[t].op \in LockedOps}

\* C13: at any time at most one call of Prepare, Exec, Query, PrepareContext,
\* ExecContext, QueryContext, Begin, Commit and Rollback is running on the
\* real transaction of a logical connection, and it holds the connection's
\* lock.
C13_MutualExclusion ==
    \A d \in Dsns :
        /\ Cardinality(Executing(d)) <= 1
        /\ \A t \in Executing(d) : mu[d] = t

C13_Witness ==
    /\ thr[1].pc = "run" /\ thr[1].op = "ExecContext" /\ thr[1].dsn = "one"
    /\ thr[2].pc = "lock" /\ thr[2].op = "Rollback" /\ thr[2].dsn = "one"
    /\ mu["one"] = 1

\* The step just taken is the return of a call of op on dsn.
Returns(op, dsn) ==
    \E t \in Callers : /\ thr[t].pc = "run" /\ thr'[t].pc = "idle"
                       /\ thr[t].op = op /\ thr[t].dsn = dsn

\* The step just taken is the return of a call of one of ops on dsn.
ReturnsAny(ops, dsn) == \E op \in ops : Returns(op, dsn)

\* The goroutine of the watcher of slot i takes the step.
WatcherStep(i) ==
    \/ \E b \in {"ctx", "done", "root"} : WatcherOuter(i, b)
    \/ WatcherInner(i)

\* What the calls do: every Query and Exec, plain or with a context,
\* succeeds, every insert adds one row to what its connection sees and no
\* row is lost; the calls made under one identifier leave what the other
\* sees as it is.
ParallelCallsSucceed ==
    \A d \in Dsns :
        /\ ReturnsAny(ExecOps, d)
              => /\ last'.err = "nil"
                 /\ Visible(d)' = Visible(d) + 1
                 /\ \A e \in Dsns \ {d} : Visible(e)' = Visible(e)
        /\ ReturnsAny(QueryOps, d)
              => /\ last'.err = "nil"
                 /\ last'.res = Visible(d)
                 /\ \A e \in Dsns : Visible(e)' = Visible(e)
        /\ InMap(d) => Visible(d)' >= Visible(d)
        /\ (InMap(d) /\ Visible(d)' > Visible(d)) => ReturnsAny(ExecOps, d)

\* C14: when goroutines query and insert concurrently on a logical
\* connection, in every interleaving the program goes on (no goroutine the
\* calls start stops it), every call succeeds, every insert adds one row to
\* what the connection sees and no row is lost, so k inserts leave seed + k
\* rows; the calls made under one identifier leave what the other sees as
\* it is.
C14_ParallelActions ==
    [][/\ \A i \in 1..MaxWatchers : WatcherStep(i) => ~crashed'
       /\ ParallelCallsSucceed]_vars

\* What holds: the calls themselves do what the claim says, in every
\* interleaving, up to the step in which a watcher stops the program.
ParallelActionsOfCalls == [][ParallelCallsSucceed]_vars

\* All the calls have returned and every insert is seen under its identifier.
AllInsertsVisible ==
    /\ ~crashed
    /\ \A t \in Callers : thr[t].pc = "idle" /\ thr[t].rows # NoRows
    /\ ncall = MaxParCalls
    /\ last.op \in ExecOps /\ last.dsn = "one"
    /\ Visible("one") = SeedRows + 2
    /\ refs["two"] > 0 /\ Visible("two") = SeedRows

\* What Query, Exec and the reading of a row set do, plain or with a
\* context: when the query returns, the lock of the connection is free and
\* no result set is open on the real transaction, so an insert that follows
\* succeeds while the row set is unread; the row set holds the rows seen at
\* query time, no call on the connection changes it, and reading it yields
\* these rows in order and then io.EOF.
RowsBuffered ==
    \A d \in SaveDsns :
        /\ (ReturnsAny(QueryOps, d) /\ last'.err = "nil")
              => /\ mu'[d] = Nil
                 /\ txs'[conns[d].tx].cur = 0
                 /\ \E t \in Callers :
                       /\ thr[t].pc = "run" /\ thr'[t].pc = "idle"
                       /\ thr'[t].rows = BuildRows(UsersCursor(Visible(d)))
        /\ (ReturnsAny(ExecOps, d) /\ \E u \in Callers : thr[u].rows # NoRows)
              => /\ last'.err = "nil"
                 /\ \A u \in Callers : thr'[u].rows = thr[u].rows
        /\ \A u \in Callers :
              (thr[u].rows # NoRows /\ thr'[u].rows # thr[u].rows)
                  => \/ ReturnsAny(QueryOps, d) /\ thr[u].pc = "run"
                     \/ last'.op = "RowsClose" /\ thr'[u].rows = NoRows
                     \/ /\ last'.op = "Next"
                        /\ Current(thr'[u].rows).rows = Current(thr[u].rows).rows
                        /\ Current(thr'[u].rows).pos = Current(thr[u].rows).pos + 1
                        /\ last'.res = IF ~AtEOF(thr'[u].rows)
                                       THEN Current(thr'[u].rows).pos ELSE -1
                        /\ last'.err = IF ~AtEOF(thr'[u].rows)
                                       THEN "nil" ELSE "EOF"

\* C15: after Query has returned a row set the program goes on (no
\* goroutine the query started stops it), the lock of the connection is
\* free and no result set is open on the real transaction, so an Exec that
\* follows proceeds and succeeds while the row set is unread; the row set
\* holds the rows seen at query time, no call on the connection changes it,
\* and reading it yields these rows in order and then io.EOF.
C15_RowsNotPinned ==
    [][/\ \A i \in 1..MaxWatchers : WatcherStep(i) => ~crashed'
       /\ RowsBuffered]_vars

\* What holds: the calls and the row set behave as the claim says up to the
\* step in which a watcher stops the program.
RowsNotPinnedByCalls == [][RowsBuffered]_vars

\* A row set read to its end after an insert that followed its query.
RowsReadAfterInsert ==
    /\ ~crashed
    /\ last.op = "Next" /\ last.err = "EOF"
    /\ thr[1].rows # NoRows
    /\ Len(Current(thr[1].rows).rows) = SeedRows
    /\ Current(thr[1].rows).pos = SeedRows + 1
    /\ Visible("one") = SeedRows + 1

\* The step just taken is the return of the watcher of slot i from its inner
\* select.
LeavesInner(i) == watchers[i].pc = "inner" /\ watchers'[i].pc = "none"

\* C16: the root context of a real transaction is cancelled only by a
\* watcher that saw the context of its call cancelled while done was not yet
\* closed; a watcher whose call had returned leaves the transaction and the
\* program as they are, whichever of the two events it sees first, and a
\* call whose own context is not cancelled succeeds as long as the root
\* context is not cancelled.
C16_NoCancelAfterDone ==
    [][/\ \A k \in DOMAIN txs :
              (txs[k].ctx = "live" /\ txs'[k].ctx = "cancelled")
                 => \E i \in 1..MaxWatchers :
                       /\ LeavesInner(i) /\ watchers[i].tx = k
                       /\ watchers[i].cx /\ ~watchers[i].done
       /\ \A i \in 1..MaxWatchers :
              (watchers[i].pc # "none" /\ watchers[i].done /\ WatcherStep(i))
                 => (txs' = txs /\ ~crashed')
       /\ \A d \in SaveDsns, t \in Callers :
              (/\ thr[t].pc = "run" /\ thr'[t].pc = "idle" /\ thr[t].dsn = d
               /\ thr[t].op \in CtxOps /\ thr[t].cx = "live"
               /\ Ctx(conns[d]) # "cancelled")
                 => last'.err = "nil"]_vars

\* C17: when the watcher of a call whose context was cancelled while done was
\* not closed runs, it goes on to cancel the root context of its logical
\* connection (or finds it cancelled); the root context then stays cancelled
\* and the connection keeps the same transaction, and once that transaction
\* is rolled back it stays so and every later call fails, whichever open of
\* the identifier makes it.
C17_CancelEscalates ==
    [][/\ \A i \in 1..MaxWatchers :
           /\ (/\ watchers[i].pc = "outer" /\ watchers[i].cx /\ ~watchers[i].done
               /\ WatcherStep(i))
                  => (watchers'[i].pc = "inner" \/ RootDone(watchers[i]))
           /\ (LeavesInner(i) /\ ~watchers[i].done)
                  => txs'[watchers[i].tx].ctx = "cancelled"
       /\ \A d \in SaveDsns :
           /\ (InMap(d) /\ Ctx(conns[d]) = "cancelled")
                 => /\ InMap(d)'
                    /\ Ctx(conns[d])' = "cancelled"
                    /\ conns'[d].tx = conns[d].tx
                    /\ conns'[d].cid = conns[d].cid
           /\ (InMap(d) /\ conns[d].tx # Nil /\ txs[conns[d].tx].done)
                 => /\ txs'[conns[d].tx].done
                    /\ \A op \in CtxOps : Returns(op, d) => last'.err # "nil"]_vars

\* What C16 and C17 say holds of the transactions beginTxOnce began: the
\* watchers of their calls cancel the root context when the context of the
\* call was cancelled before done was closed, and never otherwise.
RootCancelledByInterruptedCall ==
    [][\A i \in 1..MaxWatchers :
          (watchers[i].pc # "none" /\ ~NoRoot(watchers[i]) /\ WatcherStep(i))
             => /\ ~crashed'
                /\ IF LeavesInner(i) /\ ~watchers[i].done
                   THEN txs'[watchers[i].tx].ctx = "cancelled"
                   ELSE txs' = txs]_vars

---------------------------------------------------------------------------
\* C18: every watcher goroutine returns: whether its call returns (and closes
\* done) with the caller's context never cancelled, or the caller's context
\* is cancelled, or the root context is done, a watcher that was started is
\* eventually gone.
C18_WatchersTerminate ==
    \A i \in 1..MaxWatchers : (watchers[i].pc # "none") ~> (watchers[i].pc = "none")

\* The watchers of the calls on a transaction that beginTxOnce began return.
WatchersWithRootTerminate ==
    \A i \in 1..MaxWatchers :
        (watchers[i].pc # "none" /\ ~NoRoot(watchers[i])) ~> (watchers[i].pc = "none")

---------------------------------------------------------------------------
\* ExecContext or QueryContext of statement i comes back from s.st with an
\* error and returns it.
StmtRefused(i) ==
    \E op \in StmtOps, cx \in {"live", "cancelled"}, f \in FaultChoices :
        /\ StmtCall(i, op, cx, f)
        /\ stmts'[i].rd = stmts[i].rd
        /\ last'.err # "nil"

\* QueryContext of statement i returns the error of buildRows.
StmtReadError(i) ==
    /\ stmts[i].rd = "StmtQueryContext"
    /\ StmtRead(i) \/ StmtQueryReadFails(i, "StmtQueryContext")
    /\ last'.err # "nil"

\* C19: whenever ExecContext or QueryContext of a prepared statement returns
\* an error, the watcher of the statement is signalled in that step, and the
\* prepared statement behind it is closed in the end, whether or not the
\* transaction that owns it is ever ended by its callers.
C19_StmtClosedOnError ==
    /\ [][\A i \in 1..MaxStmts :
            (StmtRefused(i) \/ StmtReadError(i)) => stmts'[i].sig = "erred"]_vars
    /\ \A i \in 1..MaxStmts : (stmts[i].sig = "erred") ~> stmts[i].closed

\* The methods signal the watcher when s.st refuses the call.
StmtSignalledWhenRefused ==
    [][\A i \in 1..MaxStmts : StmtRefused(i) => stmts'[i].sig = "erred"]_vars

\* A statement of a transaction that beginTxOnce began is closed once one of
\* its context-aware methods has failed.
StmtWithRootClosedOnError ==
    \A i \in 1..MaxStmts :
        (stmts[i].sig = "erred" /\ ~NoRoot(stmts[i])) ~> stmts[i].closed

---------------------------------------------------------------------------
\* C20: once a PrepareContext has failed because its context was already
\* cancelled, the program goes on (the watcher the call started stops
\* nothing), the Rollback of the nested transaction returns no error, the
\* Close that drops the last reference takes the identifier out of the
\* mapping, and Ping on an open connection succeeds.
C20_DiscardAfterCancelledOp ==
    [][/\ \A i \in 1..MaxWatchers : WatcherStep(i) => ~crashed'
       /\ (last'.op = "Rollback" /\ last.op # "Rollback") => last'.err = "nil"
       /\ (refs'["one"] < refs["one"] /\ InMap("one") /\ conns["one"].opened = 1)
              => ~InMap("one")'
       /\ (last'.op = "Ping" /\ last.op # "Ping") => last'.err = "nil"]_vars

---------------------------------------------------------------------------
\* A statement whose ExecContext failed and that its owner has closed.
FailedAndClosed == \E i \in 1..MaxStmts : stmts[i].sig = "erred" /\ stmts[i].rel

\* What the calls do once ExecContext of a statement prepared in a nested
\* transaction has failed: closing the statement returns no error and
\* touches no lock, and the Rollback of the nested transaction that follows
\* runs ROLLBACK TO SAVEPOINT with the identifier of its handle, returns no
\* error and leaves the lock free.
CloseAndRollbackSucceed ==
    /\ \A i \in 1..MaxStmts :
          (stmts[i].sig = "erred" /\ ~stmts[i].rel /\ stmts'[i].rel)
              => /\ last'.op = "StmtClose" /\ last'.err = "nil"
                 /\ mu' = mu
    /\ \A t \in Callers :
          (FailedAndClosed /\ thr[t].op = "Rollback" /\ thr[t].pc = "run"
              /\ thr'[t].pc = "idle")
              => /\ last'.op = "Rollback" /\ last'.err = "nil"
                 /\ last'.sql = <<SPRollback(thr[t].h.id)>>
                 /\ mu'[thr[t].dsn] = Nil

\* C21: once ExecContext of a statement prepared in a nested transaction has
\* failed, the program goes on (neither the watcher of the prepare nor the
\* watcher of the statement stops it), closing the statement returns no
\* error and touches no lock, and the Rollback of the nested transaction
\* that follows runs ROLLBACK TO SAVEPOINT with the identifier of its
\* handle, returns no error and leaves the lock free, whether the watcher
\* had closed the statement or not.
C21_RollbackAfterFailedStmt ==
    [][/\ \A i \in 1..MaxWatchers : WatcherStep(i) => ~crashed'
       /\ \A i \in 1..MaxStmts, b \in {"root", "sig"} :
             StmtWatcher(i, b, FALSE) => ~crashed'
       /\ CloseAndRollbackSucceed]_vars

\* What holds: the calls do what the claim says up to the step in which a
\* watcher stops the program.
RollbackAfterFailedStmtOfCalls == [][CloseAndRollbackSucceed]_vars

\* The nested Rollback has returned after the watcher closed the failed
\* statement and its owner closed it again.
RolledBackAfterWatcherClosed ==
    /\ last.op = "Rollback" /\ last.err = "nil" /\ last.id = "tx_1"
    /\ ns = 1 /\ stmts[1].sig = "erred" /\ stmts[1].wpc = "exited" /\ stmts[1].rel
    /\ \A t \in Callers : thr[t].pc = "idle"

\* The nested Rollback has returned on a conn whose transaction Open began,
\* no watcher having been scheduled.
RolledBackBeforeWatchers ==
    /\ ~crashed
    /\ last.op = "Rollback" /\ last.err = "nil" /\ last.id = "tx_1"
    /\ InMap("one") /\ conns["one"].tx # Nil /\ txs[conns["one"].tx].ctx = "none"
    /\ ns = 1 /\ stmts[1].sig = "erred" /\ stmts[1].rel

---------------------------------------------------------------------------
\* C22: a Prepare or PrepareContext whose query the backend rejects returns
\* the backend's error from that very call, leaves the statements and their
\* watchers as they were (none is added, none is started), and releases the
\* lock of the conn.
C22_PrepareFailsAtPrepare ==
    [][\A t \in Callers :
        (thr[t].op \in PrepareOps /\ Return(t, TRUE))
            => /\ last'.op = thr[t].op /\ last'.err = "ErrBackend"
               /\ stmts' = stmts /\ ns' = ns
               /\ mu'[thr[t].dsn] = Nil]_vars

\* An Exec has returned without error after a PrepareContext that the
\* backend rejected: no statement exists.
C22_Witness ==
    /\ last.op = "Exec" /\ last.err = "nil"
    /\ ns = 0 /\ ncall >= 2
    /\ \E i \in 1..MaxWatchers : watchers[i].pc = "outer" /\ watchers[i].done

\* C23: a buffer of n rows hands out rows 1..n in order on its first n Next
\* calls, with no error; every later call returns io.EOF and copies nothing;
\* the rows and the columns of a buffer never change after construction.
C23_NextInOrderThenEOF ==
    [][\A t \in Callers :
          thr[t].rows # NoRows =>
            LET b == Current(thr[t].rows)
                k == b.pos + 1
            IN /\ RowsNext(t) =>
                    /\ Current(thr'[t].rows).pos = k
                    /\ k <= Len(b.rows) => (last'.err = "nil" /\ last'.res = b.rows[k])
                    /\ k > Len(b.rows) => (last'.err = "EOF" /\ last'.res = -1)
               /\ Len(thr'[t].rows.sets) = Len(thr[t].rows.sets)
               /\ \A i \in 1..Len(thr[t].rows.sets) :
                     /\ thr'[t].rows.sets[i].rows = thr[t].rows.sets[i].rows
                     /\ thr'[t].rows.sets[i].cols = thr[t].rows.sets[i].cols]_vars

\* C23 witness: both rows of a two-row buffer were copied and Next has
\* returned io.EOF twice since.
C23_Witness ==
    /\ thr[1].rows # NoRows
    /\ Current(thr[1].rows).rows = <<2, 1>>
    /\ Current(thr[1].rows).pos = 4
    /\ last.op = "Next"
    /\ last.err = "EOF"

\* The sets of the buffer are the result sets of the cursor, in its order.
BuiltFrom(rs, cur) ==
    /\ Len(rs.sets) = Len(cur)
    /\ rs.pos = 0
    /\ \A i \in 1..Len(cur) :
          /\ rs.sets[i].rows = cur[i].rows
          /\ rs.sets[i].cols = cur[i].cols
          /\ rs.sets[i].pos = 0

\* C24: a multi-result buffer holds k >= 1 sets in the backend's order and a
\* position 0 <= pos < k; HasNextResultSet is true iff pos + 1 < k;
\* NextResultSet advances by one when it is and returns io.EOF, leaving pos,
\* otherwise; Columns and Next refer to the set at pos only, Next returning
\* io.EOF at the end of that set without moving to the next one.
C24_RowSets ==
    /\ [](\A t \in Callers :
            thr[t].rows # NoRows =>
              /\ Len(thr[t].rows.sets) >= 1
              /\ 0 <= thr[t].rows.pos
              /\ thr[t].rows.pos < Len(thr[t].rows.sets)
              /\ last.op = "none" =>
                    \A cur \in Cursors :
                       thr[t].rows = BuildRows(cur) => BuiltFrom(thr[t].rows, cur))
    /\ [][\A t \in Callers :
            thr[t].rows # NoRows =>
              LET rs == thr[t].rows
                  k == Len(rs.sets)
              IN /\ RowsHasNextResultSet(t) => (last'.res = 1 <=> rs.pos + 1 < k)
                 /\ RowsNextResultSet(t) =>
                       /\ thr'[t].rows.sets = rs.sets
                       /\ rs.pos + 1 < k =>
                             (last'.err = "nil" /\ thr'[t].rows.pos = rs.pos + 1)
                       /\ ~(rs.pos + 1 < k) =>
                             (last'.err = "EOF" /\ thr'[t].rows.pos = rs.pos)
                 /\ RowsColumns(t) => last'.sql = rs.sets[rs.pos + 1].cols
                 /\ RowsNext(t) =>
                       /\ thr'[t].rows.pos = rs.pos
                       /\ \A i \in 1..k :
                             i # rs.pos + 1 => thr'[t].rows.sets[i] = rs.sets[i]
                       /\ thr'[t].rows.sets[rs.pos + 1].pos = rs.sets[rs.pos + 1].pos + 1
                       /\ last'.err = IF rs.sets[rs.pos + 1].pos
                                           < Len(rs.sets[rs.pos + 1].rows)
                                      THEN "nil" ELSE "EOF"
                       /\ last'.err = "nil" =>
                             last'.res = rs.sets[rs.pos + 1].rows[rs.sets[rs.pos + 1].pos + 1]]_vars

\* C24 witness: the first of two sets was read to its end, the caller moved to
\* the second, read its two rows and io.EOF, and a further NextResultSet
\* returned io.EOF.
C24_Witness ==
    /\ thr[1].rows # NoRows
    /\ Len(thr[1].rows.sets) = 2
    /\ thr[1].rows.pos = 1
    /\ thr[1].rows.sets[1].rows = <<1, 2>>
    /\ thr[1].rows.sets[1].pos = 3
    /\ thr[1].rows.sets[2].rows = <<2, 1>>
    /\ thr[1].rows.sets[2].pos = 3
    /\ last.op = "NextResultSet"
    /\ last.err = "EOF"

\* C25: mapNamedArgs returns a list of the same length and order as its
\* input; an argument with a non-empty name becomes a named binding of that
\* name and value, an argument with an empty name its plain value, each
\* argument decided on its own.
C25_MapNamedArgs ==
    [][\A t \in Callers :
          MapNamedArgs(t) =>
            LET a == thr[t].args
                r == thr'[t].args
            IN /\ Len(r) = Len(a)
               /\ \A i \in 1..Len(a) :
                     /\ r[i].Value = a[i].Value
                     /\ a[i].Name # "" => (r[i].kind = "NamedArg" /\ r[i].Name = a[i].Name)
                     /\ a[i].Name = "" => r[i].kind = "Value"]_vars

\* C25 witness: a positional argument followed by a named one was mapped.
C25_Witness ==
    /\ thr[1].op = "mapNamedArgs"
    /\ Len(thr[1].args) = 2
    /\ thr[1].args[1].kind = "Value"
    /\ thr[1].args[2].kind = "NamedArg"
    /\ thr[1].args[2].Name = "a"

\* C26 as stated: CheckNamedValue accepts an output-parameter marker (no
\* error, the value unchanged) and returns the skip signal for every other
\* value type.
C26_OutAcceptedElseSkip ==
    [][\A t \in Callers, i \in 1..MaxArgs, nvc \in Checkers :
          CheckNamedValue(t, i, nvc) =>
            IF thr[t].args[i].Value.type = "Out"
            THEN last'.err = "nil" /\ thr'[t].args = thr[t].args
            ELSE last'.err = "ErrSkip"]_vars

\* C26 amended: when the real connection has no named-value checker,
\* CheckNamedValue accepts an output-parameter marker (no error, the value
\* unchanged) and returns the skip signal for every other value type; when it
\* has one, the answer of that checker is returned for every value.
C26_OwnCheckWithoutBackendChecker ==
    [][\A t \in Callers, i \in 1..MaxArgs, nvc \in Checkers :
          CheckNamedValue(t, i, nvc) =>
            /\ nvc = NoChecker =>
                  /\ thr'[t].args = thr[t].args
                  /\ last'.err = IF thr[t].args[i].Value.type = "Out"
                                 THEN "nil" ELSE "ErrSkip"
            /\ nvc # NoChecker => last'.err = nvc.err]_vars

\* C26 witness: a call with an output-parameter marker and another value; the
\* marker was accepted.
C26_Witness ==
    /\ Len(thr[1].args) = 2
    /\ thr[1].op = ""
    /\ thr[1].args[1].Value.type = "int64"
    /\ thr[1].args[2].Value.type = "Out"
    /\ last.op = "CheckNamedValue"
    /\ last.res = 2
    /\ last.err = "nil"

\* The calls that return to a caller return the error of the backend as it
\* is: a failed begin, rollback, statement, savepoint statement, prepare or
\* statement close.
ReturnedAsIs ==
    /\ \A d \in SaveDsns : Open(d, TRUE) => last'.err = DBBegin(TRUE).err
    /\ \A d \in SaveDsns :
          (Close(d, TRUE) /\ conns[d].tx # Nil) =>
             last'.err = TxRollback(txs[conns[d].tx], TRUE).err
    /\ \A t \in Callers :
          (Return(t, TRUE) /\ conns[thr[t].dsn].tx # Nil) =>
             /\ last'.err = Result(t, TRUE).err
             /\ last'.err # "nil"
    /\ \A i \in 1..MaxStmts, op \in StmtOps \cup StmtPlainOps :
          StmtCall(i, op, IF op \in StmtOps THEN "live" ELSE "bg", TRUE) =>
             last'.err # "nil"
    /\ \A i \in 1..MaxStmts : StmtClose(i, TRUE) => last'.err = "ErrBackend"

\* C27: every error the backend produces during Open, Prepare, Exec, Query,
\* savepoint Begin/Commit/Rollback or Close is returned to the caller as it
\* is, and none is swallowed; in particular an error of closing a backing
\* statement is what the close of that statement returns to its owner.
C27_BackendErrorsReturned ==
    [][/\ ReturnedAsIs
       /\ \A i \in 1..MaxStmts :
             (\E f \in FaultChoices : StmtClose(i, f)) /\ stmts[i].werr # "nil"
                => last'.err = stmts[i].werr]_vars

\* The part of C27 that holds: what the calls return on their own path.
C27_ReturnedAsIs == [][ReturnedAsIs]_vars

\* C28: when a savepoint Begin, Commit or Rollback fails, the error is
\* returned, the statement was sent once, the lock of the conn is released,
\* and the reference count, the real transaction and the registry entry of
\* the logical connection are what they were before the call.
C28_FailedSavepointFrame ==
    [][\A t \in Callers :
          (/\ thr[t].op \in {"Begin", "Commit", "Rollback"}
           /\ Return(t, TRUE)
           /\ conns[thr[t].dsn].tx # Nil) =>
             LET d == thr[t].dsn
             IN /\ last'.op = thr[t].op
                /\ last'.err = "ErrBackend"
                /\ Len(last'.sql) = 1
                /\ mu'[d] = Nil
                /\ thr'[t].pc = "idle"
                /\ refs' = refs
                /\ conns'[d].opened = conns[d].opened
                /\ conns'[d].tx = conns[d].tx
                /\ conns'[d].cid = conns[d].cid
                /\ txs' = txs
                /\ txHandles' = txHandles]_vars

\* C28 witness: the ROLLBACK TO of a nested transaction has failed and the
\* logical connection is registered with its lock free.
C28_Witness ==
    /\ last.op = "Rollback"
    /\ last.err = "ErrBackend"
    /\ last.sql = <<SPRollback(last.id)>>
    /\ InMap("one")
    /\ refs["one"] >= 1
    /\ mu["one"] = Nil

\* C29: over any interleaving of concurrent Begin calls on one logical
\* connection with a savepoint strategy, the savepoint counter only grows, by
\* one with every Begin whether its SAVEPOINT statement succeeds or fails, the
\* identifier of a Begin is the one its own increment produced, and no two
\* handles carry the same identifier.
C29_SavepointIdsUnique ==
    /\ [](\A h1 \in BagToSet(txHandles), h2 \in BagToSet(txHandles) :
            (h1.dsn = h2.dsn /\ h1.id = h2.id /\ h1.id # "_") =>
               (h1 = h2 /\ CopiesIn(h1, txHandles) = 1))
    /\ [][/\ \A d \in Dsns :
               (InMap(d) /\ InMap(d)' /\ conns'[d].cid = conns[d].cid) =>
                  conns'[d].saves >= conns[d].saves
          /\ \A t \in Callers, f \in FaultChoices :
               (thr[t].op = "Begin" /\ Return(t, f) /\ conns[thr[t].dsn].tx # Nil) =>
                  LET d == thr[t].dsn
                  IN /\ conns'[d].saves = conns[d].saves + 1
                     /\ last'.id = SavepointId(conns'[d].saves)
                     /\ \A h \in BagToSet(txHandles) : h.dsn = d => h.id # last'.id
                     /\ (last'.err = "nil") <=>
                           (\E h \in BagToSet(txHandles') :
                               h.dsn = d /\ h.id = last'.id /\ ~BagIn(h, txHandles))]_vars

\* C29 witness: a Begin whose SAVEPOINT failed has consumed tx_1 while another
\* goroutine waits for the lock in Begin.
C29_Witness ==
    /\ InMap("one")
    /\ conns["one"].saves = 1
    /\ last.op = "Begin"
    /\ last.err = "ErrBackend"
    /\ last.id = "tx_1"
    /\ \E t \in Callers : thr[t].pc = "lock" /\ thr[t].op = "Begin"

\* C30: Exec and Query on a prepared statement, plain and with a context, are
\* serialized with every other operation on the owning logical connection: a
\* statement operation never runs against the shared transaction while another
\* operation holds the lock of that connection.
C30_StmtOpsSerialized ==
    [][\A i \in 1..MaxStmts, op \in StmtOps \cup StmtPlainOps :
          StmtCall(i, op, IF op \in StmtOps THEN "live" ELSE "bg", FALSE) =>
             mu[stmts[i].dsn] = Nil]_vars

\* C31: the Close that brings the count of a logical connection to zero never
\* rolls back or clears its real transaction while an Exec, Query, Prepare,
\* Begin, Commit or Rollback on that connection is in flight: no operation
\* has its transaction rolled back or cleared by Close in the middle of its
\* call.
C31_CloseNotDuringOperation ==
    [][\A d \in Dsns, f \in FaultChoices :
          (/\ Close(d, f)
           /\ \/ ~InMap(d)'
              \/ conns'[d].tx # conns[d].tx
              \/ (conns[d].tx # Nil /\ txs'[conns[d].tx] # txs[conns[d].tx])) =>
             /\ InFlightOn(d) = 0
             /\ mu[d] = Nil
             /\ \A t \in Callers : thr[t].dsn = d => thr[t].pc = "idle"]_vars

\* C31 witness: the last Close of "one" has rolled back and removed it after
\* two calls on it had been made and had returned.
C31_Witness ==
    /\ last.op = "Close"
    /\ last.dsn = "one"
    /\ last.err = "nil"
    /\ ~InMap("one")
    /\ ncall >= 2
    /\ TotalRows = 0
    /\ Len(txs) >= 1 /\ txs[1].done

\* A Close that is not the last one returns while a call on the same logical
\* connection is running.
CloseBesideCall ==
    /\ last.op = "Close"
    /\ InMap("one")
    /\ \E t \in Callers : thr[t].pc = "run" /\ thr[t].dsn = "one"

\* C32: an Exec, Query or Prepare never holds the registry lock: it takes
\* the lock of its conn only and leaves the registry lock as it is, and Open
\* and Close, which hold the registry lock, take no lock of a conn.  So
\* while a call is in flight on one identifier, an Open or a Close of
\* another identifier can take the registry lock when it is free and can
\* finish once it holds it, a call that waits for the lock of another
\* identifier can take it whoever holds the registry lock, and the call in
\* flight can return whoever holds the registry lock.
C32_RegistryLockNotHeldAcrossCalls ==
    /\ [](\A t \in Callers, d \in Dsns :
            (thr[t].pc = "run" /\ thr[t].dsn # d) =>
               /\ mu[d] # t
               /\ ENABLED Return(t, FALSE)
               /\ (DrvLockFree /\ TotalRefs < MaxOpens) => ENABLED DrvLock("Open", d)
               /\ (DrvLockFree /\ InMap(d) /\ refs[d] > HandlesOn(d) + InFlightOn(d))
                     => ENABLED DrvLock("Close", d)
               /\ dmu = <<"Open", d>> => ENABLED Open(d, FALSE)
               /\ dmu = <<"Close", d>> => ENABLED Close(d, FALSE)
               /\ \A u \in Callers :
                     (thr[u].pc = "lock" /\ thr[u].dsn = d /\ mu[d] = Nil) =>
                        ENABLED LockConn(u, FALSE))
    /\ [][/\ \A t \in Callers :
               (thr[t].op \in {"Prepare", "Exec", "Query"}
                   /\ (LockConn(t, FALSE) \/ Return(t, FALSE))) => dmu' = dmu
          /\ \A d \in Dsns :
               (DrvLock("Open", d) \/ DrvLock("Close", d)
                   \/ Open(d, FALSE) \/ Close(d, FALSE)) => (mu' = mu /\ thr' = thr)]_vars

\* C32 witness: an Open of "two" holds the registry lock while one call
\* runs on "one" and another, on "two", waits for nothing but the lock of
\* its conn.
C32_Witness ==
    /\ dmu = <<"Open", "two">>
    /\ thr[1].pc = "run" /\ thr[1].dsn = "one" /\ mu["one"] = 1
    /\ thr[2].pc = "lock" /\ thr[2].dsn = "two" /\ mu["two"] = Nil

\* A Query of any of the four kinds returns in this step.
QueryReturns ==
    \/ \E t \in Callers :
          /\ thr[t].op \in QueryOps
          /\ (\E f \in FaultChoices : Return(t, f)) \/ QueryReadFails(t)
    \/ \E i \in 1..MaxStmts, op \in {"StmtQuery", "StmtQueryContext"} :
          \/ \E f \in FaultChoices :
                /\ StmtCall(i, op, IF op \in StmtOps THEN "live" ELSE "bg", f)
                /\ stmts'[i].rd = stmts[i].rd
          \/ StmtRead(i)
          \/ StmtQueryReadFails(i, op)

\* C33: after any Query returns, on the conn or on a prepared statement,
\* plain or with a context, whether it succeeds, fails, or fails while its
\* rows are read, the result set it opened on the backend is closed: the
\* result sets open on a real transaction once the call has returned are
\* those of the statement queries that have not returned yet.
C33_CursorClosedOnReturn ==
    [][QueryReturns =>
          \A k \in 1..Len(txs) : txs'[k].cur = Cardinality(ReadingTx(k))']_vars

\* C33 witness: a query on a prepared statement has failed while its rows
\* were read, with no result set left open.
C33_Witness ==
    /\ last.op = "StmtQueryContext"
    /\ last.err = "ErrRead"
    /\ \A i \in 1..Len(txs) : txs[i].cur = 0

\* C34: the options are applied once to a logical connection, when it is
\* created: every identifier in the mapping has had each option called on it
\* once, an Open of an identifier already in the mapping calls none, and an
\* Open whose option returns an error returns that error, begins no
\* transaction, inserts no entry and leaves the count of the new object at 0.
OptionFails == \E i \in 1..Len(options) : options[i] = FailingOption

C34_OptionsOnceAtCreation ==
    /\ [](\A d \in Dsns : conns[d] # NoConn =>
            /\ conns[d].applied = Len(options)
            /\ conns[d].savePoint = (IF options = << >> THEN "default" ELSE "nil"))
    /\ [][\A d \in Dsns, f \in FaultChoices :
            Open(d, f) /\ ~(db = Nil /\ ~drvOK) =>
                IF conns[d] # NoConn
                THEN /\ conns'[d].applied = conns[d].applied
                     /\ conns'[d].savePoint = conns[d].savePoint
                     /\ txs' = txs
                ELSE IF OptionFails
                THEN /\ last'.err = "ErrOption"
                     /\ last'.res = 0
                     /\ txs' = txs
                     /\ conns' = conns
                     /\ refs' = refs
                ELSE conns'[d].applied = Len(options)]_vars

C34_Witness ==
    /\ last.op = "Open"
    /\ last.err = "ErrOption"
    /\ options = <<"nil", FailingOption>>
    /\ conns[last.dsn] = NoConn
    /\ txs = << >>

\* An Open of an identifier already in the mapping, with an option registered.
C34_WitnessReopen ==
    /\ last.op = "Open"
    /\ last.err = "nil"
    /\ options = <<"nil">>
    /\ conns[last.dsn] # NoConn
    /\ conns[last.dsn].opened = 2

---------------------------------------------------------------------------
\* C35: the watcher PrepareContext started for a statement exits in the end
\* once the owner of the statement has closed it or the root context of its
\* transaction is done; a statement closed without a failure leaves no
\* watcher waiting.
C35_StmtWatcherExits ==
    \A i \in 1..MaxStmts :
        (stmts[i].wpc = "wait" /\ (stmts[i].rel \/ RootDone(stmts[i])))
            ~> (stmts[i].wpc = "exited")

\* The part that holds: a watcher whose root context is done exits.
StmtWatcherExitsOnRootDone ==
    \A i \in 1..MaxStmts :
        (stmts[i].wpc = "wait" /\ RootDone(stmts[i])) ~> (stmts[i].wpc = "exited")

\* A statement closed by its owner, never failed, whose watcher waits.
ClosedStmtWatcherWaits ==
    /\ ns = 1 /\ stmts[1].rel /\ stmts[1].closed /\ stmts[1].sig = "none"
    /\ stmts[1].wpc = "wait"
    /\ \A t \in Callers : thr[t].pc = "idle"

---------------------------------------------------------------------------
\* C36: between operations, every identifier in the mapping has a reference
\* count of at least 1 and a real transaction of its own that is not nil; a
\* logical connection whose count has reached 0 is out of the mapping.
C36_RegistryInvariant ==
    /\ \A d \in Dsns : InMap(d) => (conns[d].opened >= 1 /\ conns[d].tx # Nil)
    /\ \A d, e \in Dsns : (d # e /\ InMap(d) /\ InMap(e)) => conns[d].tx # conns[e].tx

\* The two ways the code leaves such an entry: without transaction after a
\* failed Begin, with a count of 0 after a failed rollback.
EntryWithoutTx == \E d \in Dsns : InMap(d) /\ conns[d].tx = Nil /\ last.err = "ErrBegin"
EntryWithCountZero == \E d \in Dsns : InMap(d) /\ conns[d].opened = 0 /\ last.op = "Close"

\* What holds: an entry is without transaction or count only from the Open
\* whose Begin failed, or the Close whose rollback failed, onwards.
RegistryInvariantBarFailures ==
    [][(C36_RegistryInvariant /\ last'.err = "nil") => C36_RegistryInvariant']_vars

---------------------------------------------------------------------------
\* C37: the reference count of an entry is the number of Opens of its
\* identifier that returned without error minus the number of Closes (refs
\* counts exactly those, as database/sql closes what Open returned without
\* error and nothing else).
C37_CountIsOpensMinusCloses ==
    \A d \in Dsns : InMap(d) => conns[d].opened = refs[d]

\* What holds: the count is never below that number, so the Close of a
\* connection that Open returned never finds a count of 0 to decrement.
CountNeverWraps ==
    /\ [](\A d \in Dsns : InMap(d) => conns[d].opened >= refs[d])
    /\ [][\A d \in Dsns, f \in FaultChoices : Close(d, f) => conns[d].opened >= 1]_vars

\* An entry counted once more than it was opened: the Open that created it
\* returned the error of Begin.
CountAheadOfOpens ==
    \E d \in Dsns : InMap(d) /\ conns[d].opened = refs[d] + 1 /\ last.op = "Close"

---------------------------------------------------------------------------
\* No operation holds the two locks together: Open and Close, which hold
\* the registry lock, leave the locks of the conns as they are, and the
\* methods of a conn, which hold its lock, leave the registry lock as it is.
LocksNotNested ==
    /\ \A d \in Dsns :
          (DrvLock("Open", d) \/ DrvLock("Close", d) \/ Open(d, FALSE)
              \/ Close(d, FALSE)) => mu' = mu
    /\ \A t \in Callers :
          (LockConn(t, FALSE) \/ \E f \in FaultChoices : Return(t, f)) => dmu' = dmu

\* Nobody waits for what cannot come: the Open or Close that holds the
\* registry lock can finish, a call that waits for the lock of its conn can
\* take it or waits for a call that is running and can return, and a call
\* that is running can return.
NobodyStuck ==
    /\ \A d \in Dsns :
          /\ dmu = <<"Open", d>> => ENABLED Open(d, FALSE)
          /\ dmu = <<"Close", d>> => ENABLED Close(d, FALSE)
    /\ \A t \in Callers :
          /\ thr[t].pc = "lock" =>
                \/ ENABLED LockConn(t, FALSE)
                \/ \E u \in Callers \ {t} :
                      /\ mu[thr[t].dsn] = u
                      /\ thr[u].pc = "run"
                      /\ ENABLED Return(u, FALSE)
          /\ thr[t].pc = "run" => ENABLED Return(t, FALSE)

\* C38: no operation holds the registry lock and the lock of a conn
\* together, so in every interleaving of Open, Close, Begin, Commit,
\* Rollback, Prepare, Exec and Query, plain and with a context, on any
\* identifiers nothing deadlocks: the Open or Close that holds the registry
\* lock finishes, a call that waits for the lock of its conn waits for a
\* call that is running and can return, and every call that was entered
\* returns.
C38_NoDeadlock ==
    /\ [][LocksNotNested]_vars
    /\ []NobodyStuck
    /\ \A t \in Callers : (thr[t].pc # "idle") ~> (thr[t].pc = "idle")
    /\ (~DrvLockFree) ~> DrvLockFree

\* What holds: the locks are never nested, and as long as no watcher has
\* stopped the program nobody is stuck and every call that was entered
\* returns.
NoDeadlockWhileRunning ==
    /\ [][LocksNotNested]_vars
    /\ [](~crashed => NobodyStuck)
    /\ \A t \in Callers : (thr[t].pc # "idle") ~> (thr[t].pc = "idle" \/ crashed)
    /\ (~DrvLockFree) ~> (DrvLockFree \/ crashed)

\* A Close holds the registry lock while one caller runs under the lock of
\* the conn it closes and another waits for the lock of the other conn.
CloseBesideLockedCall ==
    /\ ~crashed
    /\ dmu = <<"Close", "one">>
    /\ thr[1].pc = "run" /\ thr[1].dsn = "one" /\ mu["one"] = 1
    /\ thr[2].pc = "lock" /\ thr[2].dsn = "two"

---------------------------------------------------------------------------
\* C39: the cancellation of the context of a call on one identifier leaves
\* every other identifier alone: no step of that call, of its watcher or of
\* the rollback that follows changes the entry, the count or the real
\* transaction of another identifier, and the root context of an identifier
\* is cancelled only by the watcher of a call on that identifier whose own
\* context was cancelled.
Untouched(b) ==
    /\ conns'[b] = conns[b]
    /\ refs'[b] = refs[b]
    /\ (InMap(b) /\ conns[b].tx # Nil) => txs'[conns[b].tx] = txs[conns[b].tx]

C39_CancellationIsolated ==
    [][\A b \in Dsns :
          /\ (\E t \in Callers : thr[t].dsn # b /\ Cancel(t)) => Untouched(b)
          /\ (\E i \in 1..MaxWatchers :
                 /\ watchers[i].dsn # b
                 /\ \/ WatcherInner(i)
                    \/ \E k \in {"ctx", "done", "root"} : WatcherOuter(i, k))
                => Untouched(b)
          /\ (\E a \in Dsns \ {b} : AwaitDone(a)) => Untouched(b)
          /\ (InMap(b) /\ Ctx(conns[b]) = "live" /\ Ctx(conns[b])' = "cancelled") =>
                \E i \in 1..MaxWatchers :
                    /\ watchers[i].pc = "inner"
                    /\ watchers[i].dsn = b
                    /\ watchers[i].cx
          /\ (InMap(b) /\ conns[b].tx # Nil /\ ~txs[conns[b].tx].done
                /\ txs'[conns[b].tx].done) => Ctx(conns[b]) = "cancelled"]_vars

\* C39 witness: the transaction of "one" was aborted by a cancelled call, and
\* an ExecContext on "two" has succeeded after it on a live transaction.
C39_Witness ==
    /\ InMap("one") /\ Ctx(conns["one"]) = "cancelled" /\ txs[conns["one"].tx].done
    /\ InMap("two") /\ Ctx(conns["two"]) = "live" /\ ~txs[conns["two"].tx].done
    /\ refs["two"] = 1
    /\ last.op = "ExecContext" /\ last.dsn = "two" /\ last.err = "nil"

---------------------------------------------------------------------------
\* C40: a context-aware operation begins a real transaction only on a conn
\* that has none; a conn never gets a second one, whatever happens to the
\* root context of the first, and the operations that follow use the one it
\* has; a begin that fails leaves the conn without transaction and without a
\* live root context, and starts no watcher.
C40_BeginOnlyWithoutTx ==
    /\ [](Len(txs) <= nconn)
    /\ [][\A t \in Callers, f \in FaultChoices :
            (thr[t].op \in CtxOps /\ LockConn(t, f)) =>
               LET d == thr[t].dsn
               IN /\ Len(txs') > Len(txs) =>
                        (conns[d].tx = Nil /\ conns'[d].tx = Len(txs')
                           /\ txs'[Len(txs')].ctx = "live")
                  /\ conns[d].tx # Nil =>
                        (txs' = txs /\ conns' = conns /\ thr'[t].pc = "run")
                  /\ (conns[d].tx = Nil /\ f) =>
                        /\ last'.err = "ErrBegin"
                        /\ txs' = txs
                        /\ conns'[d] = conns[d]
                        /\ watchers' = watchers
                        /\ thr'[t].pc = "idle"]_vars
    /\ [][\A d \in SaveDsns :
            (InMap(d) /\ conns[d].tx # Nil) =>
               (InMap(d)' /\ conns'[d].tx = conns[d].tx)]_vars

\* C40 witness: a context-aware call failed to begin the transaction of a
\* conn that Open had left without one, and started no watcher.
C40_Witness ==
    /\ last.op \in CtxOps /\ last.err = "ErrBegin"
    /\ InMap("one") /\ conns["one"].tx = Nil
    /\ \A i \in 1..MaxWatchers : watchers[i].pc = "none"
    /\ txs = << >>

\* The transaction a context-aware call began is still the one of the conn
\* after its root context was cancelled and it was rolled back, and a later
\* call has used it.
LazyTxKeptAfterCancel ==
    /\ InMap("one") /\ conns["one"].opened = refs["one"] + 1
    /\ conns["one"].tx = 1 /\ Len(txs) = 1 /\ txs[1].done
    /\ Ctx(conns["one"]) = "cancelled"
    /\ last.op \in CtxOps /\ last.err # "nil" /\ ncall >= 2
    /\ \A t \in Callers : thr[t].pc = "idle"

====
